---- MODULE Spec2Model ----
(***************************************************************************)
(* Model of the transaction pool of erigon-lib (src/txpool/pool.go): the   *)
(* TxPool structure, its per-sender nonce index, the three sub-pools with  *)
(* their heaps, the reclassifier (onSenderStateChange), the promoter       *)
(* (promote) and the public operations OnNewBlock, AddLocalTxs,            *)
(* AddRemoteTxs, processRemoteTxs and flush.                               *)
(*                                                                         *)
(* Go indices are 0-based and are kept 0-based in bestIndex / worstIndex;  *)
(* a container's slice ms is a TLA+ sequence, so Go's ms[i] is ms[i + 1].  *)
(* metaTx objects live in pool.mt, a map from object identity to record:   *)
(* the Go code shares *metaTx pointers between byHash, the nonce index and *)
(* the sub-pool containers.                                                *)
(***************************************************************************)
EXTENDS Integers, Sequences, FiniteSets, TLC

VARIABLES pool, db, view, ret, steps, fails, u64in, u64out, lock, search, calls, newPendingTxs

vars == <<pool, db, view, ret, steps, fails, u64in, u64out, lock, search, calls, newPendingTxs>>

(***************************************************************************)
(* Bounds of the model.                                                    *)
(***************************************************************************)
\* number of public operations in one behaviour
MaxOps == 3
\* number of operations in one behaviour during which the state view fails
MaxFails == 1

(***************************************************************************)
(* Program constants.                                                      *)
(***************************************************************************)
EnoughFeeCapProtocol == 32
NoNonceGaps == 16
EnoughBalance == 8
NotTooMuchGas == 4
EnoughFeeCapBlock == 2
IsLocal == 1
BaseFeePoolBits == EnoughFeeCapProtocol + NoNonceGaps + EnoughBalance + NotTooMuchGas
QueuedPoolBits == EnoughFeeCapProtocol

PendingSubPool == 1
BaseFeeSubPool == 2
QueuedSubPool == 3

\* fixedgas.TxGas, the intrinsic gas of a plain transfer
TxGas == 21000

\* math.MaxUint64 is used by the code only as "larger than every value" (the
\* start of a running minimum, the distance of a covered balance, the gas
\* limit during restore).  TLC integers are 32 bits wide, so the model uses the
\* largest TLC integer in that role; 64-bit wrap-around is modelled exactly,
\* on limbs, where the code multiplies (see U64 below).
MaxUint64 == 2147483647

\* Config: the limits are configuration values, chosen small
PendingSubPoolLimit == 2
BaseFeeSubPoolLimit == 2
QueuedSubPoolLimit == 2
MinFeeCap == 1
AccountSlots == 2
PriceBump == 10


(***************************************************************************)
(* Inputs: the senders and the transactions (TxSlot values) the callers    *)
(* submit.  A TxSlot is immutable; its id hash names it.                   *)
(***************************************************************************)
Senders == {"A", "B", "C", "D", "E"}

TxSlot(s, n, f, t, g) == [senderID |-> s, nonce |-> n, feeCap |-> f, tip |-> t, gas |-> g, value |-> 0]

Slots == [a0  |-> TxSlot("A", 0, 8, 1, TxGas),
          a0r |-> TxSlot("A", 0, 22, 6, TxGas),
          a1  |-> TxSlot("A", 1, 20, 5, TxGas),
          a1l |-> TxSlot("A", 1, 5, 1, TxGas),
          a2  |-> TxSlot("A", 2, 20, 5, TxGas),
          b0  |-> TxSlot("B", 0, 8, 1, TxGas),
          b1  |-> TxSlot("B", 1, 5, 1, TxGas),
          bad |-> TxSlot("B", 2, 20, 5, TxGas - 1),
          t10 |-> TxSlot("C", 0, 20, 10, TxGas),
          t5  |-> TxSlot("D", 0, 20, 5, TxGas),
          t1  |-> TxSlot("E", 0, 20, 1, TxGas)]

IdHashes == DOMAIN Slots

\* three transactions of three senders that differ only in their tip
TipHashes == {"t10", "t5", "t1"}

\* balances of the state view: one that covers every transaction of the
\* catalogue, and one that is a unit short of gas * feeCap of one transfer
BigBalance == 1000 * TxGas
LowBalance == TxGas * 20 - 1

(***************************************************************************)
(* uint64 arithmetic of addLocked's price-bump thresholds, exact on four   *)
(* 16-bit limbs (least significant first).                                 *)
(***************************************************************************)
Limb == 2 ^ 16

ToU64(n) == <<n % Limb, (n \div Limb) % Limb, 0, 0>>

\* x * k as Go computes it on uint64: the carry out of the top limb is lost
MulU64(x, k) ==
    LET m1 == x[1] * k
        m2 == x[2] * k + (m1 \div Limb)
        m3 == x[3] * k + (m2 \div Limb)
        m4 == x[4] * k + (m3 \div Limb)
    IN <<m1 % Limb, m2 % Limb, m3 % Limb, m4 % Limb>>

\* x / d on uint64 (long division from the top limb)
DivU64(x, d) ==
    LET c4 == x[4]
        c3 == (c4 % d) * Limb + x[3]
        c2 == (c3 % d) * Limb + x[2]
        c1 == (c2 % d) * Limb + x[1]
    IN <<c1 \div d, c2 \div d, c3 \div d, c4 \div d>>

LtU64(x, y) ==
    \/ x[4] < y[4]
    \/ x[4] = y[4] /\ x[3] < y[3]
    \/ x[4] = y[4] /\ x[3] = y[3] /\ x[2] < y[2]
    \/ x[4] = y[4] /\ x[3] = y[3] /\ x[2] = y[2] /\ x[1] < y[1]

\* found.Tx.tip * (100 + p.cfg.PriceBump) / 100
bumpThreshold(x) == DivU64(MulU64(x, 100 + PriceBump), 100)

\* addLocked's test: true when the new transaction does not replace the found one
notReplaced(foundTip, foundFeeCap, newTip, newFeeCap) ==
    \/ LtU64(newTip, bumpThreshold(foundTip))
    \/ LtU64(newFeeCap, bumpThreshold(foundFeeCap))

(***************************************************************************)
(* metaTx and the comparators.                                             *)
(***************************************************************************)
min(a, b) == IF a < b THEN a ELSE b

HasBit(x, b) == (x \div b) % 2 = 1
SetBit(x, b) == IF HasBit(x, b) THEN x ELSE x + b
ClearBit(x, b) == IF HasBit(x, b) THEN x - b ELSE x

\* newMetaTx(slot, isLocal, timestamp).  rlp stands for Tx.rlp != nil.
newMetaTx(hash, isLocal, timestamp, hasRlp) ==
    [Tx |-> hash, subPool |-> IF isLocal THEN IsLocal ELSE 0,
     nonceDistance |-> 0, cumulativeBalanceDistance |-> 0,
     minFeeCap |-> 0, minTip |-> 0, bestIndex |-> -1, worstIndex |-> -1,
     currentSubPool |-> 0, timestamp |-> timestamp, rlp |-> hasRlp]

effectiveSubPool(m, pendingBaseFee) ==
    IF m.minFeeCap >= pendingBaseFee THEN SetBit(m.subPool, EnoughFeeCapBlock) ELSE m.subPool

effectiveTip(m, pendingBaseFee) ==
    IF pendingBaseFee <= m.minFeeCap THEN min(m.minFeeCap - pendingBaseFee, m.minTip) ELSE 0

better(m, than, pendingBaseFee) ==
    LET subPool == effectiveSubPool(m, pendingBaseFee)
        thanSubPool == effectiveSubPool(than, pendingBaseFee)
    IN IF subPool # thanSubPool THEN subPool > thanSubPool
       ELSE IF m.currentSubPool = PendingSubPool
                 /\ effectiveTip(m, pendingBaseFee) # effectiveTip(than, pendingBaseFee)
            THEN effectiveTip(m, pendingBaseFee) > effectiveTip(than, pendingBaseFee)
       ELSE IF m.currentSubPool = BaseFeeSubPool /\ m.minFeeCap # than.minFeeCap
            THEN m.minFeeCap > than.minFeeCap
       ELSE IF m.currentSubPool = QueuedSubPool /\ m.nonceDistance # than.nonceDistance
            THEN m.nonceDistance < than.nonceDistance
       ELSE IF m.currentSubPool = QueuedSubPool
                 /\ m.cumulativeBalanceDistance # than.cumulativeBalanceDistance
            THEN m.cumulativeBalanceDistance < than.cumulativeBalanceDistance
       ELSE m.timestamp < than.timestamp

worse(m, than, pendingBaseFee) ==
    LET subPool == effectiveSubPool(m, pendingBaseFee)
        thanSubPool == effectiveSubPool(than, pendingBaseFee)
        pooled == m.currentSubPool \in {PendingSubPool, BaseFeeSubPool, QueuedSubPool}
    IN IF subPool # thanSubPool THEN subPool < thanSubPool
       ELSE IF m.currentSubPool = PendingSubPool /\ m.minFeeCap # than.minFeeCap
            THEN m.minFeeCap < than.minFeeCap
       ELSE IF pooled /\ m.nonceDistance # than.nonceDistance
            THEN m.nonceDistance > than.nonceDistance
       ELSE IF pooled /\ m.cumulativeBalanceDistance # than.cumulativeBalanceDistance
            THEN m.cumulativeBalanceDistance > than.cumulativeBalanceDistance
       ELSE m.timestamp > than.timestamp

(***************************************************************************)
(* container/heap over a container's slice.  A heap value h is the pair of *)
(* the metaTx objects (h.mt) and the slice (h.ms); side is "best" (Less is *)
(* better, the index field is bestIndex) or "worst" (Less is worse, the    *)
(* index field is worstIndex); fee is the container's pendingBaseFee.      *)
(***************************************************************************)
setIndex(mt, id, side, v) ==
    IF side = "best" THEN [mt EXCEPT ![id].bestIndex = v] ELSE [mt EXCEPT ![id].worstIndex = v]

Less(h, side, fee, i, j) ==
    IF side = "best" THEN better(h.mt[h.ms[i + 1]], h.mt[h.ms[j + 1]], fee)
    ELSE worse(h.mt[h.ms[i + 1]], h.mt[h.ms[j + 1]], fee)

Swap(h, side, i, j) ==
    LET a == h.ms[i + 1]
        b == h.ms[j + 1]
    IN [mt |-> setIndex(setIndex(h.mt, b, side, i), a, side, j),
        ms |-> [h.ms EXCEPT ![i + 1] = b, ![j + 1] = a]]

RECURSIVE up(_, _, _, _)
up(h, side, fee, j) ==
    LET i == IF j = 0 THEN 0 ELSE (j - 1) \div 2
    IN IF i = j \/ ~Less(h, side, fee, j, i) THEN h
       ELSE up(Swap(h, side, i, j), side, fee, i)

\* the child j of down's loop: j2 when it exists and is less than j1
smallerChild(h, side, fee, j1, n) ==
    IF j1 + 1 < n /\ Less(h, side, fee, j1 + 1, j1) THEN j1 + 1 ELSE j1

\* down returns the heap and the index the element ended at
RECURSIVE down(_, _, _, _, _)
downTo(h, side, fee, i, n, j) ==
    IF ~Less(h, side, fee, j, i) THEN [h |-> h, i |-> i]
    ELSE down(Swap(h, side, i, j), side, fee, j, n)

down(h, side, fee, i, n) ==
    IF 2 * i + 1 >= n THEN [h |-> h, i |-> i]
    ELSE downTo(h, side, fee, i, n, smallerChild(h, side, fee, 2 * i + 1, n))

\* BestQueue.Push / WorstQueue.Push
Push(h, side, id) ==
    [mt |-> setIndex(h.mt, id, side, Len(h.ms)), ms |-> Append(h.ms, id)]

\* Pop without the reset of the index field
PopStale(h, side) ==
    [mt |-> [h.mt EXCEPT ![h.ms[Len(h.ms)]].currentSubPool = 0],
     ms |-> SubSeq(h.ms, 1, Len(h.ms) - 1), item |-> h.ms[Len(h.ms)]]

\* BestQueue.Pop / WorstQueue.Pop: the last element leaves, its index and its
\* currentSubPool are reset "for safety"
Pop(h, side) ==
    LET n == Len(h.ms)
        item == h.ms[n]
    IN [mt |-> [setIndex(h.mt, item, side, -1) EXCEPT ![item].currentSubPool = 0],
        ms |-> SubSeq(h.ms, 1, n - 1), item |-> item]

heapPush(h, side, fee, id) == up(Push(h, side, id), side, fee, Len(h.ms))

heapPop(h, side, fee) ==
    LET n == Len(h.ms) - 1
    IN Pop(down(Swap(h, side, 0, n), side, fee, 0, n).h, side)

\* if !down(h, i, n) { up(h, i) }, d being the result of down
upUnlessDown(d, side, fee, i) == IF d.i > i THEN d.h ELSE up(d.h, side, fee, i)

heapFix(h, side, fee, i) == upUnlessDown(down(h, side, fee, i, Len(h.ms)), side, fee, i)

heapRemove(h, side, fee, i) ==
    IF Len(h.ms) - 1 # i
    THEN Pop(upUnlessDown(down(Swap(h, side, i, Len(h.ms) - 1), side, fee, i, Len(h.ms) - 1),
                          side, fee, i), side)
    ELSE Pop(h, side)

RECURSIVE heapInitFrom(_, _, _, _)
heapInitFrom(h, side, fee, i) ==
    IF i < 0 THEN h
    ELSE heapInitFrom(down(h, side, fee, i, Len(h.ms)).h, side, fee, i - 1)

heapInit(h, side, fee) == heapInitFrom(h, side, fee, (Len(h.ms) \div 2) - 1)

\* sort.Sort on a slice of at most 12 elements is an insertion sort
RECURSIVE insertionInner(_, _, _, _)
insertionInner(h, side, fee, j) ==
    IF j > 0 /\ Less(h, side, fee, j, j - 1)
    THEN insertionInner(Swap(h, side, j, j - 1), side, fee, j - 1)
    ELSE h

RECURSIVE insertionSort(_, _, _, _)
insertionSort(h, side, fee, i) ==
    IF i >= Len(h.ms) THEN h
    ELSE insertionSort(insertionInner(h, side, fee, i), side, fee, i + 1)

sortSort(h, side, fee) == insertionSort(h, side, fee, 1)

(***************************************************************************)
(* The sub-pools.  sp is "pending" (a PendingPool: best is a slice, worst  *)
(* a heap), "baseFee" or "queued" (a SubPool: twin heaps).  An operator    *)
(* takes the pool p and returns the pool after the call; a Pop returns the *)
(* pair of the pool and the popped metaTx.                                 *)
(***************************************************************************)
SubPoolNames == {"pending", "baseFee", "queued"}

TypeOf(sp) == CASE sp = "pending" -> PendingSubPool
                [] sp = "baseFee" -> BaseFeeSubPool
                [] sp = "queued" -> QueuedSubPool

Limit(sp) == CASE sp = "pending" -> PendingSubPoolLimit
               [] sp = "baseFee" -> BaseFeeSubPoolLimit
               [] sp = "queued" -> QueuedSubPoolLimit

H(p, sp, side) == [mt |-> p.mt, ms |-> p[sp][side].ms]

Put(p, sp, side, h) == [p EXCEPT !.mt = h.mt, ![sp][side].ms = h.ms]

Fee(p, sp, side) == p[sp][side].pendingBaseFee

indexOf(m, side) == IF side = "best" THEN m.bestIndex ELSE m.worstIndex

PoolLen(p, sp) == Len(p[sp].best.ms)

\* Best() / Worst(): the first element of the container, 0 for nil
Best(p, sp) == IF Len(p[sp].best.ms) = 0 THEN 0 ELSE p[sp].best.ms[1]

Worst(p, sp) == IF Len(p[sp].worst.ms) = 0 THEN 0 ELSE p[sp].worst.ms[1]

\* heap.Push(p.best, i) / heap.Push(p.worst, i)
pushIn(p, sp, side, id) == Put(p, sp, side, heapPush(H(p, sp, side), side, Fee(p, sp, side), id))

\* heap.Pop(p.best) / heap.Pop(p.worst); r is the heap after the pop
popped(p, sp, side, r) == [p |-> Put(p, sp, side, r), item |-> r.item]

popIn(p, sp, side) == popped(p, sp, side, heapPop(H(p, sp, side), side, Fee(p, sp, side)))

\* heap.Remove(p.best, i.bestIndex) / heap.Remove(p.worst, i.worstIndex)
removeIn(p, sp, side, id) ==
    Put(p, sp, side, heapRemove(H(p, sp, side), side, Fee(p, sp, side), indexOf(p.mt[id], side)))

\* heap.Fix(p.best, i.bestIndex) / heap.Fix(p.worst, i.worstIndex)
fixIn(p, sp, side, id) ==
    Put(p, sp, side, heapFix(H(p, sp, side), side, Fee(p, sp, side), indexOf(p.mt[id], side)))

\* heap.Init(p.best) / heap.Init(p.worst)
initIn(p, sp, side) == Put(p, sp, side, heapInit(H(p, sp, side), side, Fee(p, sp, side)))

\* the head of Add, shared by PendingPool and SubPool
noteAdded(p, sp, id) ==
    [p EXCEPT ![sp].added = IF p[sp].adding THEN Append(@, p.mt[id].Tx) ELSE @,
              !.mt[id].currentSubPool = TypeOf(sp)]

\* s is the slice after Swap(i.bestIndex, len - 1)
dropLast(s) ==
    [mt |-> setIndex(s.mt, s.ms[Len(s.ms)], "best", -1), ms |-> SubSeq(s.ms, 1, Len(s.ms) - 1)]

UnsafeRemove(h, id) == dropLast(Swap(h, "best", h.mt[id].bestIndex, Len(h.ms) - 1))

UnsafeAdd(h, id) == Push(h, "best", id)

unsafeRemoveIn(p, id) == Put(p, "pending", "best", UnsafeRemove(H(p, "pending", "best"), id))

unsafeAddIn(p, id) == Put(p, "pending", "best", UnsafeAdd(H(p, "pending", "best"), id))

PendingPool_Add(p, id) == unsafeAddIn(pushIn(noteAdded(p, "pending", id), "pending", "worst", id), id)

\* r is the result of heap.Pop(p.worst)
unsafeRemovePopped(r) == [p |-> unsafeRemoveIn(r.p, r.item), item |-> r.item]

PendingPool_PopWorst(p) == unsafeRemovePopped(popIn(p, "pending", "worst"))

PendingPool_Remove(p, id) == unsafeRemoveIn(removeIn(p, "pending", "worst", id), id)

PendingPool_Updated(p, id) == fixIn(p, "pending", "worst", id)

EnforceWorstInvariants(p) == initIn(p, "pending", "worst")

EnforceBestInvariants(p) ==
    Put(p, "pending", "best", sortSort(H(p, "pending", "best"), "best", Fee(p, "pending", "best")))

SubPool_Add(p, sp, id) == pushIn(pushIn(noteAdded(p, sp, id), sp, "best", id), sp, "worst", id)

\* r is the result of the heap.Pop on one queue: remove the item from the other
removePopped(r, sp, side) == [p |-> removeIn(r.p, sp, side, r.item), item |-> r.item]

SubPool_PopBest(p, sp) == removePopped(popIn(p, sp, "best"), sp, "worst")

SubPool_PopWorst(p, sp) == removePopped(popIn(p, sp, "worst"), sp, "best")

SubPool_Remove(p, sp, id) ==
    [removeIn(removeIn(p, sp, "best", id), sp, "worst", id) EXCEPT !.mt[id].currentSubPool = 0]

SubPool_Updated(p, sp, id) == fixIn(fixIn(p, sp, "best", id), sp, "worst", id)

EnforceInvariants(p, sp) == initIn(initIn(p, sp, "worst"), sp, "best")

\* dispatch on the sub-pool
Add(p, sp, id) == IF sp = "pending" THEN PendingPool_Add(p, id) ELSE SubPool_Add(p, sp, id)

PopWorst(p, sp) == IF sp = "pending" THEN PendingPool_PopWorst(p) ELSE SubPool_PopWorst(p, sp)

\* switch mt.currentSubPool { case ...: pool.Remove(mt); default: already removed }
removeFromSubPool(p, id) ==
    CASE p.mt[id].currentSubPool = PendingSubPool -> PendingPool_Remove(p, id)
      [] p.mt[id].currentSubPool = BaseFeeSubPool -> SubPool_Remove(p, "baseFee", id)
      [] p.mt[id].currentSubPool = QueuedSubPool -> SubPool_Remove(p, "queued", id)
      [] OTHER -> p

\* switch mt.currentSubPool { case ...: pool.Updated(mt) }
updatedInSubPool(p, id) ==
    CASE p.mt[id].currentSubPool = PendingSubPool -> PendingPool_Updated(p, id)
      [] p.mt[id].currentSubPool = BaseFeeSubPool -> SubPool_Updated(p, "baseFee", id)
      [] p.mt[id].currentSubPool = QueuedSubPool -> SubPool_Updated(p, "queued", id)
      [] OTHER -> p

(***************************************************************************)
(* BySenderAndNonce: the tree is a map from <<senderID, nonce>> to the     *)
(* metaTx stored under that key; senderIDTxnCount is the side map.         *)
(***************************************************************************)
Key(p, id) == <<Slots[p.mt[id].Tx].senderID, Slots[p.mt[id].Tx].nonce>>

KeyOfHash(hash) == <<Slots[hash].senderID, Slots[hash].nonce>>

Nonces == {Slots[h].nonce : h \in IdHashes}

MaxNonce == CHOOSE n \in Nonces : \A k \in Nonces : k <= n

get(p, senderID, txNonce) ==
    IF <<senderID, txNonce>> \in DOMAIN p.all.tree THEN p.all.tree[<<senderID, txNonce>>] ELSE 0

count(p, senderID) ==
    IF senderID \in DOMAIN p.all.senderIDTxnCount THEN p.all.senderIDTxnCount[senderID] ELSE 0

\* the metaTx of a sender in ascending nonce order, from nonce n on
RECURSIVE ascendFrom(_, _, _)
ascendFrom(p, senderID, n) ==
    IF n > MaxNonce THEN <<>>
    ELSE (IF <<senderID, n>> \in DOMAIN p.all.tree THEN <<p.all.tree[<<senderID, n>>]>> ELSE <<>>)
         \o ascendFrom(p, senderID, n + 1)

ascend(p, senderID) == ascendFrom(p, senderID, 0)

Reverse(s) == [i \in 1..Len(s) |-> s[Len(s) + 1 - i]]

descend(p, senderID) == Reverse(ascend(p, senderID))

hasTxs(p, senderID) == Len(ascend(p, senderID)) > 0

replaceOrInsert(p, id) ==
    IF Key(p, id) \in DOMAIN p.all.tree
    THEN [p EXCEPT !.all.tree[Key(p, id)] = id]
    ELSE [p EXCEPT !.all.tree = @ @@ (Key(p, id) :> id),
                   !.all.senderIDTxnCount =
                       (Slots[p.mt[id].Tx].senderID :> count(p, Slots[p.mt[id].Tx].senderID) + 1) @@ @]

\* delete(mt): tree.Delete removes the item stored under mt's key
delete(p, hash) ==
    IF KeyOfHash(hash) \in DOMAIN p.all.tree
    THEN [p EXCEPT !.all.tree = [k \in DOMAIN @ \ {KeyOfHash(hash)} |-> @[k]],
                   !.all.senderIDTxnCount =
                       IF count(p, Slots[hash].senderID) > 1
                       THEN (Slots[hash].senderID :> count(p, Slots[hash].senderID) - 1) @@ @
                       ELSE [s \in DOMAIN @ \ {Slots[hash].senderID} |-> @[s]]]
    ELSE p

(***************************************************************************)
(* discardLocked and addLocked.                                            *)
(***************************************************************************)
\* discardLocked(mt, reason) reads only mt.Tx: byHash is keyed by the id hash,
\* the tree by <<senderID, nonce>>
discardLocked(p, hash, reason) ==
    [delete(p, hash) EXCEPT !.byHash = [h \in DOMAIN @ \ {hash} |-> @[h]],
                            !.deletedTxs = Append(@, hash),
                            !.discardReasonsLRU = (hash :> reason) @@ @]

\* the identity of a newly allocated metaTx
newId(p) == CHOOSE i \in 1..(Cardinality(DOMAIN p.mt) + 1) : i \notin DOMAIN p.mt

\* the switch on found.currentSubPool and discardLocked(found, ReplacedByHigherTip)
replaceFound(p, found) ==
    IF found # 0
    THEN discardLocked(removeFromSubPool(p, found), p.mt[found].Tx, "ReplacedByHigherTip")
    ELSE p

markLocal(p, m) == IF HasBit(m.subPool, IsLocal) THEN [p EXCEPT !.isLocalLRU = @ \cup {m.Tx}] ELSE p

\* the tail of addLocked, id being the identity of mt
insertAs(p, m, id) ==
    SubPool_Add(markLocal(replaceOrInsert([p EXCEPT !.mt = @ @@ (id :> m),
                                                    !.byHash = (m.Tx :> id) @@ @], id), m),
                "queued", id)

insert(p, m) == insertAs(p, m, newId(p))

\* whether addLocked(mt) returns NotReplaced, found being p.all.get(...)
rejects(p, m, found) ==
    /\ found # 0
    /\ notReplaced(ToU64(Slots[p.mt[found].Tx].tip), ToU64(Slots[p.mt[found].Tx].feeCap),
                   ToU64(Slots[m.Tx].tip), ToU64(Slots[m.Tx].feeCap))

\* addLocked(mt) for mt = newMetaTx(...): the pool and the reason ("NotSet"
\* when mt was added)
addLockedFound(p, m, found) ==
    IF rejects(p, m, found) THEN [p |-> p, reason |-> "NotReplaced"]
    ELSE [p |-> insert(replaceFound(p, found), m), reason |-> "NotSet"]

addLocked(p, m) == addLockedFound(p, m, get(p, Slots[m.Tx].senderID, Slots[m.Tx].nonce))

(***************************************************************************)
(* Validation.  v is the state view: v[sender] = [nonce, balance].         *)
(***************************************************************************)
\* CalcIntrinsicGas of a transfer without data, access list or creation
CalcIntrinsicGas == TxGas

validateTx(p, hash, isLocal, v) ==
    LET txn == Slots[hash]
    IN IF ~isLocal /\ txn.feeCap < MinFeeCap THEN "UnderPriced"
       ELSE IF CalcIntrinsicGas > txn.gas THEN "IntrinsicGas"
       ELSE IF count(p, txn.senderID) > AccountSlots THEN "Spammer"
       ELSE IF v[txn.senderID].nonce > txn.nonce THEN "NonceTooLow"
       ELSE IF v[txn.senderID].balance < txn.gas * txn.tip + txn.value THEN "InsufficientFunds"
       ELSE "Success"

\* for _, mt := range ids { discard(mt, reason) }
RECURSIVE discardAll(_, _, _)
discardAll(p, ids, reason) ==
    IF ids = <<>> THEN p
    ELSE discardAll(discardLocked(p, p.mt[Head(ids)].Tx, reason), Tail(ids), reason)

punishSpammer(p, spammer) ==
    IF count(p, spammer) \div 2 > 0
    THEN discardAll(p, SubSeq(descend(p, spammer), 1,
                              min(count(p, spammer) \div 2, Len(descend(p, spammer)))), "Spammer")
    ELSE p

\* one iteration of validateTxs' first loop, reason being validateTx's result
validated(r, senderID, reason) ==
    [p |-> IF reason = "Spammer" THEN punishSpammer(r.p, senderID) ELSE r.p,
     reasons |-> Append(r.reasons, IF reason = "Success" THEN "NotSet" ELSE reason)]

\* the first loop of validateTxs; r carries the pool and the reasons so far
RECURSIVE validateLoop(_, _, _, _, _)
validateLoop(r, txs, isLocal, v, i) ==
    IF i > Len(txs) THEN r
    ELSE validateLoop(validated(r, Slots[txs[i]].senderID, validateTx(r.p, txs[i], isLocal[i], v)),
                      txs, isLocal, v, i + 1)

\* the indices of the inputs that passed, in order: goodTxs.txs[j] = txs.txs[good[j]]
RECURSIVE goodIndices(_, _)
goodIndices(reasons, i) ==
    IF i > Len(reasons) THEN <<>>
    ELSE (IF reasons[i] = "NotSet" THEN <<i>> ELSE <<>>) \o goodIndices(reasons, i + 1)

\* the second loop of validateTxs
collectGood(r, good, txs, isLocal) ==
    [p |-> r.p, reasons |-> r.reasons,
     goodTxs |-> [j \in 1..Len(good) |-> txs[good[j]]],
     goodIsLocal |-> [j \in 1..Len(good) |-> isLocal[good[j]]]]

validated2(r, txs, isLocal) == collectGood(r, goodIndices(r.reasons, 1), txs, isLocal)

validateTxs(p, txs, isLocal, v) ==
    validated2(validateLoop([p |-> p, reasons |-> <<>>], txs, isLocal, v, 1), txs, isLocal)

(***************************************************************************)
(* onSenderStateChange.                                                    *)
(***************************************************************************)
calcProtocolBaseFee(baseFee) == 7

\* mt.subPool &^= bit; if on { mt.subPool |= bit }
withBit(x, b, on) == IF on THEN SetBit(x, b) ELSE ClearBit(x, b)

\* one iteration of the ascend callback; a carries the pool and the locals
oscStep(a, id, senderNonce, senderBalance, protocolBaseFee, blockGasLimit, unsafe) ==
    LET m == a.p.mt[id]
        txn == Slots[m.Tx]
        minFeeCap == min(a.minFeeCap, txn.feeCap)
        minTip == min(a.minTip, txn.tip)
        m1 == [m EXCEPT !.minFeeCap = minFeeCap, !.minTip = minTip,
                        !.nonceDistance = IF txn.nonce > senderNonce THEN txn.nonce - senderNonce ELSE 0]
        needBalance == txn.gas * txn.feeCap + txn.value
        noGap == a.noGapsNonce = txn.nonce
        cum == IF txn.nonce >= senderNonce THEN a.cumulativeRequiredBalance + needBalance
               ELSE a.cumulativeRequiredBalance
        enough == txn.nonce >= senderNonce /\ senderBalance >= cum
        m2 == [m1 EXCEPT !.subPool =
                             withBit(withBit(withBit(SetBit(@, EnoughFeeCapProtocol),
                                                     NoNonceGaps, noGap),
                                             EnoughBalance, enough),
                                     NotTooMuchGas, txn.gas < blockGasLimit),
                         !.cumulativeBalanceDistance =
                             IF txn.nonce >= senderNonce /\ ~enough THEN cum - senderBalance
                             ELSE MaxUint64]
    IN IF senderNonce > txn.nonce
       THEN [a EXCEPT !.p = removeFromSubPool(a.p, id), !.toDel = Append(@, id)]
       ELSE IF minFeeCap < protocolBaseFee
       THEN [a EXCEPT !.p.mt[id] = [m1 EXCEPT !.subPool = 0],
                      !.minFeeCap = minFeeCap, !.minTip = minTip]
       ELSE [a EXCEPT !.p = IF unsafe THEN [a.p EXCEPT !.mt[id] = m2]
                            ELSE updatedInSubPool([a.p EXCEPT !.mt[id] = m2], id),
                      !.minFeeCap = minFeeCap, !.minTip = minTip,
                      !.noGapsNonce = IF noGap THEN @ + 1 ELSE @,
                      !.cumulativeRequiredBalance = cum]

RECURSIVE oscLoop(_, _, _, _, _, _, _)
oscLoop(a, ids, senderNonce, senderBalance, protocolBaseFee, blockGasLimit, unsafe) ==
    IF ids = <<>> THEN a
    ELSE oscLoop(oscStep(a, Head(ids), senderNonce, senderBalance, protocolBaseFee, blockGasLimit, unsafe),
                 Tail(ids), senderNonce, senderBalance, protocolBaseFee, blockGasLimit, unsafe)

\* the loop after the iteration: discard(mt, NonceTooLow) for mt in toDel
discardToDel(a) == discardAll(a.p, a.toDel, "NonceTooLow")

onSenderStateChange(p, senderID, senderNonce, senderBalance, protocolBaseFee, blockGasLimit, unsafe) ==
    discardToDel(oscLoop([p |-> p, noGapsNonce |-> senderNonce, cumulativeRequiredBalance |-> 0,
                          minFeeCap |-> MaxUint64, minTip |-> MaxUint64, toDel |-> <<>>],
                         ascend(p, senderID), senderNonce, senderBalance, protocolBaseFee,
                         blockGasLimit, unsafe))

(***************************************************************************)
(* promote: the eight loops, in order.                                     *)
(***************************************************************************)
\* pool.Add(other.PopX()): r is the result of the pop
moveTo(r, sp) == Add(r.p, sp, r.item)

\* discard(pool.PopX(), reason)
discardPopped(r, reason) == discardLocked(r.p, r.p.mt[r.item].Tx, reason)

RECURSIVE demotePending(_, _)
demotePending(p, pendingBaseFee) ==
    LET w == p.mt[Worst(p, "pending")]
    IN IF PoolLen(p, "pending") > 0 /\ (w.subPool < BaseFeePoolBits \/ w.minFeeCap < pendingBaseFee)
       THEN demotePending(IF w.subPool >= BaseFeePoolBits
                          THEN moveTo(PendingPool_PopWorst(p), "baseFee")
                          ELSE IF w.subPool >= QueuedPoolBits
                          THEN moveTo(PendingPool_PopWorst(p), "queued")
                          ELSE discardPopped(PendingPool_PopWorst(p), "FeeTooLow"),
                          pendingBaseFee)
       ELSE p

RECURSIVE promoteBaseFee(_, _)
promoteBaseFee(p, pendingBaseFee) ==
    LET b == p.mt[Best(p, "baseFee")]
    IN IF PoolLen(p, "baseFee") > 0 /\ b.subPool >= BaseFeePoolBits /\ b.minFeeCap >= pendingBaseFee
       THEN promoteBaseFee(moveTo(SubPool_PopBest(p, "baseFee"), "pending"), pendingBaseFee)
       ELSE p

RECURSIVE demoteBaseFee(_)
demoteBaseFee(p) ==
    LET w == p.mt[Worst(p, "baseFee")]
    IN IF PoolLen(p, "baseFee") > 0 /\ w.subPool < BaseFeePoolBits
       THEN demoteBaseFee(IF w.subPool >= QueuedPoolBits
                          THEN moveTo(SubPool_PopWorst(p, "baseFee"), "queued")
                          ELSE discardPopped(SubPool_PopWorst(p, "baseFee"), "FeeTooLow"))
       ELSE p

RECURSIVE promoteQueued(_, _)
promoteQueued(p, pendingBaseFee) ==
    LET b == p.mt[Best(p, "queued")]
    IN IF PoolLen(p, "queued") > 0 /\ b.subPool >= BaseFeePoolBits
       THEN promoteQueued(IF b.minFeeCap >= pendingBaseFee
                          THEN moveTo(SubPool_PopBest(p, "queued"), "pending")
                          ELSE moveTo(SubPool_PopBest(p, "queued"), "baseFee"),
                          pendingBaseFee)
       ELSE p

RECURSIVE discardQueued(_)
discardQueued(p) ==
    LET w == p.mt[Worst(p, "queued")]
    IN IF PoolLen(p, "queued") > 0 /\ w.subPool < QueuedPoolBits
       THEN discardQueued(discardPopped(SubPool_PopWorst(p, "queued"), "FeeTooLow"))
       ELSE p

RECURSIVE enforceLimit(_, _, _)
enforceLimit(p, sp, reason) ==
    IF PoolLen(p, sp) > Limit(sp) THEN enforceLimit(discardPopped(PopWorst(p, sp), reason), sp, reason)
    ELSE p

promote(p, pendingBaseFee) ==
    enforceLimit(
        enforceLimit(
            enforceLimit(
                discardQueued(
                    promoteQueued(
                        demoteBaseFee(
                            promoteBaseFee(demotePending(p, pendingBaseFee), pendingBaseFee)),
                        pendingBaseFee)),
                "pending", "PendingPoolOverflow"),
            "baseFee", "BaseFeePoolOverflow"),
        "queued", "QueuedPoolOverflow")

(***************************************************************************)
(* removeMined, addTxs, addTxsOnNewBlock.  ord is the order in which Go's  *)
(* map iteration visits the senders.                                       *)
(***************************************************************************)
SeqToSet(s) == {s[i] : i \in 1..Len(s)}

RECURSIVE selectSeq(_, _)
selectSeq(s, S) ==
    IF s = <<>> THEN <<>>
    ELSE (IF Head(s) \in S THEN <<Head(s)>> ELSE <<>>) \o selectSeq(Tail(s), S)

\* the senders of the set c in the order ord visits them
visit(ord, c) == selectSeq(ord, c)

RECURSIVE removeAll(_, _)
removeAll(p, ids) ==
    IF ids = <<>> THEN p ELSE removeAll(removeFromSubPool(p, Head(ids)), Tail(ids))

\* the metaTx of ids (ascending nonces) up to the first nonce above nonce
RECURSIVE upTo(_, _, _)
upTo(p, ids, nonce) ==
    IF ids = <<>> \/ Slots[p.mt[Head(ids)].Tx].nonce > nonce THEN <<>>
    ELSE <<Head(ids)>> \o upTo(p, Tail(ids), nonce)

\* noncesToRemove[senderID]
nonceToRemove(minedTxs, senderID) ==
    CHOOSE n \in {Slots[h].nonce : h \in {x \in SeqToSet(minedTxs) : Slots[x].senderID = senderID}} :
        \A h \in SeqToSet(minedTxs) : Slots[h].senderID = senderID => Slots[h].nonce <= n

\* the body of removeMined's loop for one sender, toDel being what ascend collects
removeAndDiscard(p, toDel) == discardAll(removeAll(p, toDel), toDel, "Mined")

RECURSIVE removeMinedLoop(_, _, _)
removeMinedLoop(p, senders, minedTxs) ==
    IF senders = <<>> THEN p
    ELSE removeMinedLoop(removeAndDiscard(p, upTo(p, ascend(p, Head(senders)),
                                                  nonceToRemove(minedTxs, Head(senders)))),
                         Tail(senders), minedTxs)

removeMined(p, minedTxs, ord) ==
    removeMinedLoop(p, visit(ord, {Slots[h].senderID : h \in SeqToSet(minedTxs)}), minedTxs)

\* the loop over sendersWithChangedState once the lookups succeed
RECURSIVE changeSenders(_, _, _, _, _, _)
changeSenders(p, senders, v, protocolBaseFee, blockGasLimit, unsafe) ==
    IF senders = <<>> THEN p
    ELSE changeSenders(onSenderStateChange(p, Head(senders), v[Head(senders)].nonce,
                                           v[Head(senders)].balance, protocolBaseFee,
                                           blockGasLimit, unsafe),
                       Tail(senders), v, protocolBaseFee, blockGasLimit, unsafe)

\* addTxs' first loop after add(mt) returned a
added(r, a, senderID) ==
    [p |-> a.p, reasons |-> Append(r.reasons, a.reason),
     changed |-> IF a.reason = "NotSet" THEN r.changed \cup {senderID} ELSE r.changed]

\* addTxs' first loop without the byHash test: every input goes to add(mt)
RECURSIVE addLoopUnchecked(_, _, _, _, _, _)
addLoopUnchecked(r, blockNum, newTxs, isLocal, hasRlp, i) ==
    IF i > Len(newTxs) THEN r
    ELSE addLoopUnchecked(added(r, addLocked(r.p, newMetaTx(newTxs[i], isLocal[i], blockNum, hasRlp)),
                                Slots[newTxs[i]].senderID),
                          blockNum, newTxs, isLocal, hasRlp, i + 1)

\* the first loop of addTxs; r carries the pool, the reasons and the senders
RECURSIVE addLoop(_, _, _, _, _, _)
addLoop(r, blockNum, newTxs, isLocal, hasRlp, i) ==
    IF i > Len(newTxs) THEN r
    ELSE IF newTxs[i] \in DOMAIN r.p.byHash
    THEN addLoop([r EXCEPT !.reasons = Append(@, "DuplicateHash")], blockNum, newTxs, isLocal, hasRlp, i + 1)
    ELSE addLoop(added(r, addLocked(r.p, newMetaTx(newTxs[i], isLocal[i], blockNum, hasRlp)),
                       Slots[newTxs[i]].senderID),
                 blockNum, newTxs, isLocal, hasRlp, i + 1)

\* addTxs from the loop over sendersWithChangedState on.  viewFails: the
\* first senders.info returns an error
addTxsTail(r, v, viewFails, pendingBaseFee, blockGasLimit, ord) ==
    IF viewFails /\ r.changed # {}
    THEN [p |-> r.p, reasons |-> r.reasons, err |-> TRUE]
    ELSE [p |-> EnforceBestInvariants(
                    promote(changeSenders(r.p, visit(ord, r.changed), v,
                                          calcProtocolBaseFee(pendingBaseFee), blockGasLimit, FALSE),
                            pendingBaseFee)),
          reasons |-> r.reasons, err |-> FALSE]

addTxs(p, blockNum, v, viewFails, newTxs, isLocal, hasRlp, pendingBaseFee, blockGasLimit, ord) ==
    addTxsTail(addLoop([p |-> p, reasons |-> <<>>, changed |-> {}], blockNum, newTxs, isLocal, hasRlp, 1),
               v, viewFails, pendingBaseFee, blockGasLimit, ord)

\* addTxsOnNewBlock's first loop after add(mt) returned a: a rejected metaTx
\* is discarded
addedOnNewBlock(r, a, hash) ==
    IF a.reason # "NotSet" THEN [r EXCEPT !.p = discardLocked(a.p, hash, a.reason)]
    ELSE [r EXCEPT !.p = a.p, !.changed = @ \cup {Slots[hash].senderID}]

RECURSIVE addLoopOnNewBlock(_, _, _, _)
addLoopOnNewBlock(r, blockNum, newTxs, i) ==
    IF i > Len(newTxs) THEN r
    ELSE IF newTxs[i] \in DOMAIN r.p.byHash THEN addLoopOnNewBlock(r, blockNum, newTxs, i + 1)
    ELSE addLoopOnNewBlock(addedOnNewBlock(r, addLocked(r.p, newMetaTx(newTxs[i], FALSE, blockNum, TRUE)),
                                           newTxs[i]),
                           blockNum, newTxs, i + 1)

\* addTxsOnNewBlock from the state changes on; changes are the senders the
\* batch upserts
addTxsOnNewBlockTail(r, v, viewFails, changes, pendingBaseFee, blockGasLimit, ord) ==
    IF viewFails /\ r.changed \cup changes # {}
    THEN [p |-> r.p, err |-> TRUE]
    ELSE [p |-> changeSenders(r.p, visit(ord, r.changed \cup changes), v,
                              calcProtocolBaseFee(pendingBaseFee), blockGasLimit, TRUE),
          err |-> FALSE]

addTxsOnNewBlock(p, blockNum, v, viewFails, changes, newTxs, pendingBaseFee, blockGasLimit, ord) ==
    addTxsOnNewBlockTail(addLoopOnNewBlock([p |-> p, changed |-> {}], blockNum, newTxs, 1),
                         v, viewFails, changes, pendingBaseFee, blockGasLimit, ord)

setBaseFee(p, baseFee) ==
    IF baseFee > 0
    THEN [p |-> [p EXCEPT !.pendingBaseFee = baseFee], changed |-> baseFee # p.pendingBaseFee]
    ELSE [p |-> p, changed |-> FALSE]

\* i ranges over reasons and indexes newTxs: an index past newTxs panics
RECURSIVE fillLoop(_, _, _, _)
fillLoop(r, newTxs, lru, i) ==
    IF i > Len(r.reasons) THEN r
    ELSE IF r.reasons[i] # "NotSet" THEN fillLoop(r, newTxs, lru, i + 1)
    ELSE IF i > Len(newTxs) THEN [r EXCEPT !.panic = TRUE]
    ELSE fillLoop([r EXCEPT !.reasons[i] = IF newTxs[i] \in DOMAIN lru THEN lru[newTxs[i]] ELSE "Success"],
                  newTxs, lru, i + 1)

fillDiscardReasons(reasons, newTxs, lru) == fillLoop([reasons |-> reasons, panic |-> FALSE], newTxs, lru, 1)

\* p.pending.resetAddedHashes(); p.baseFee.resetAddedHashes()
resetAddedHashes(p) ==
    [p EXCEPT !.pending.added = <<>>, !.pending.adding = TRUE,
              !.baseFee.added = <<>>, !.baseFee.adding = TRUE]

\* p.promoted = p.pending.appendAddedHashes(p.promoted[:0]), then p.baseFee's
appendAddedHashes(p) ==
    [p EXCEPT !.promoted = p.pending.added \o p.baseFee.added,
              !.pending.adding = FALSE, !.baseFee.adding = FALSE]

\* what the garbage collector keeps: the metaTx some structure still points to
collect(p) ==
    [p EXCEPT !.mt = [id \in {p.byHash[h] : h \in DOMAIN p.byHash}
                             \cup {p.all.tree[k] : k \in DOMAIN p.all.tree}
                             \cup UNION {SeqToSet(p[sp].best.ms) \cup SeqToSet(p[sp].worst.ms) :
                                         sp \in SubPoolNames} |-> @[id]]]

(***************************************************************************)
(* The pool after New, persistence, and the inputs of the operations.      *)
(***************************************************************************)
EmptyQueue == [ms |-> <<>>, pendingBaseFee |-> 0]

EmptySubPool == [best |-> EmptyQueue, worst |-> EmptyQueue, adding |-> FALSE, added |-> <<>>]

New ==
    [started |-> FALSE, lastSeenBlock |-> 0, pendingBaseFee |-> 0, blockGasLimit |-> 0,
     unprocessedRemoteTxs |-> <<>>, unprocessedRemoteByHash |-> {},
     byHash |-> <<>>, discardReasonsLRU |-> <<>>,
     pending |-> EmptySubPool, baseFee |-> EmptySubPool, queued |-> EmptySubPool,
     isLocalLRU |-> {}, deletedTxs |-> <<>>,
     all |-> [tree |-> <<>>, senderIDTxnCount |-> <<>>],
     promoted |-> <<>>, mt |-> <<>>]

\* the key order of the PoolTransaction table
HashOrder == <<"a0", "a0r", "a1", "a1l", "a2", "b0", "b1", "bad">>

\* the block gas limit the state-change batches carry
BlockGasLimit == 30000000

\* the gas limit of a block that has no room for a plain transfer
LowGasLimit == 21000

\* base fees the state-change batches carry; 0 means "not set"
BaseFees == {0, 10, 25}

Orders == {<<"A", "B">>, <<"B", "A">>}

\* A state-change batch with its unwound and mined transactions.  pre is the
\* nonce sender A must have in the state before the batch (-1: any), nonce
\* and balance the values the batch upserts for A (-1: that field is kept).
BlockEvent(pre, nonce, balance, mined, unwind) ==
    [pre |-> pre, nonce |-> nonce, balance |-> balance, mined |-> mined, unwind |-> unwind,
     gasLimit |-> BlockGasLimit]

\* a batch without state changes whose block gas limit is LowGasLimit
LowGasEvent == [BlockEvent(-1, -1, -1, <<>>, <<>>) EXCEPT !.gasLimit = LowGasLimit]

BlockEvents ==
    {BlockEvent(-1, -1, -1, <<>>, <<>>),
     BlockEvent(0, 1, -1, <<"a0">>, <<>>),
     BlockEvent(0, 2, -1, <<"a0", "a1">>, <<>>),
     BlockEvent(1, 0, -1, <<>>, <<"a0">>),
     BlockEvent(-1, -1, LowBalance, <<>>, <<>>),
     LowGasEvent}

EventChanges(ev) == IF ev.nonce # -1 \/ ev.balance # -1 THEN {"A"} ELSE {}

\* cache.OnNewBlock(stateChanges): the view after the batch
ApplyEvent(v, ev) ==
    [v EXCEPT !["A"] = [nonce |-> IF ev.nonce # -1 THEN ev.nonce ELSE @.nonce,
                        balance |-> IF ev.balance # -1 THEN ev.balance ELSE @.balance]]

LocalBatches ==
    {<<h>> : h \in IdHashes \ TipHashes}
    \cup {<<"a0", "a1">>, <<"a1", "a2">>, <<"a0", "b0">>, <<"bad", "a0">>, <<"a0", "bad">>, <<"b1", "a1">>}

RemoteBatches == {<<"a0">>, <<"a0r">>, <<"b0">>, <<"a1", "a2">>, <<"b1", "a1">>}

\* what a previous run of the program left in the database, and the state it
\* finds on start
EmptyDB == [txs |-> {}, locals |-> {}, baseFee |-> 0, lastSeen |-> 0]

FreshView == [s \in Senders |-> [nonce |-> 0, balance |-> BigBalance]]

(***************************************************************************)
(* The callers.  lock is p.lock (a sync.RWMutex): w is the caller holding   *)
(* the write lock, r the callers holding the read lock.  search is the      *)
(* metaTx behind BySenderAndNonce.search, the key the nonce index looks up. *)
(* calls holds, for every caller, the operation it runs, its position in    *)
(* it, its argument and its result.                                         *)
(***************************************************************************)
\* the capacity of the newPendingTxs channel
ChanCap == 1

Callers == {"c1", "c2"}

Unlocked == [w |-> "none", r |-> {}]

NoSearch == [senderID |-> "", nonce |-> 0]

Idle == [op |-> "none", pc |-> "idle", arg |-> "", res |-> <<0, FALSE>>]

NoCalls == [c \in Callers |-> Idle]

InitialStates ==
    {[db |-> EmptyDB, view |-> FreshView],
     [db |-> [txs |-> {"a0", "a1"}, locals |-> {}, baseFee |-> 0, lastSeen |-> 0], view |-> FreshView],
     [db |-> [txs |-> {"a0", "a1", "b0"}, locals |-> {"b0"}, baseFee |-> 10, lastSeen |-> 0],
      view |-> FreshView],
     [db |-> [txs |-> {"a0r"}, locals |-> {}, baseFee |-> 0, lastSeen |-> 0],
      view |-> [FreshView EXCEPT !["A"].nonce = 1]],
     \* a0 was added as local and mined before the last flush
     [db |-> [txs |-> {"a1"}, locals |-> {"a0"}, baseFee |-> 0, lastSeen |-> 0],
      view |-> [FreshView EXCEPT !["A"].nonce = 1]]}

\* the PoolTransaction rows that pass validateTx, in key order
fromDBTxs(p, d, v) ==
    selectSeq(HashOrder, {h \in d.txs : validateTx(p, h, h \in p.isLocalLRU, v) = "Success"})

\* the end of fromDB, r being the result of addTxs
fromDBTail(r, d) ==
    IF r.err THEN [p |-> r.p, err |-> TRUE]
    ELSE [p |-> [r.p EXCEPT !.pendingBaseFee = d.baseFee], err |-> FALSE]

fromDBAdd(p, txs, d, v, viewFails, ord) ==
    fromDBTail(addTxs(p, p.lastSeenBlock, v, viewFails, txs,
                      [i \in 1..Len(txs) |-> txs[i] \in p.isLocalLRU], FALSE,
                      d.baseFee, MaxUint64, ord), d)

\* fromDB once lastSeenBlock and isLocalLRU are restored
fromDBLoad(p, d, v, viewFails, ord) == fromDBAdd(p, fromDBTxs(p, d, v), d, v, viewFails, ord)

fromDB(p, d, v, viewFails, ord) ==
    fromDBLoad([p EXCEPT !.lastSeenBlock = IF @ = 0 THEN d.lastSeen ELSE @,
                         !.isLocalLRU = @ \cup d.locals], d, v, viewFails, ord)

\* metaTx.Tx.rlp = nil for the metaTx of ids
clearRlp(mt, ids) == [id \in DOMAIN mt |-> IF id \in ids THEN [mt[id] EXCEPT !.rlp = FALSE] ELSE mt[id]]

\* the byHash entries flushLocked writes: those whose rlp is still held
withRlp(p) == {h \in DOMAIN p.byHash : p.mt[p.byHash[h]].rlp}

flushLocked(p, d) ==
    [p |-> [p EXCEPT !.mt = clearRlp(@, {p.byHash[h] : h \in withRlp(p)}), !.deletedTxs = <<>>],
     db |-> [txs |-> (d.txs \ SeqToSet(p.deletedTxs)) \cup withRlp(p), locals |-> p.isLocalLRU,
             baseFee |-> p.pendingBaseFee, lastSeen |-> p.lastSeenBlock]]

setComparators(p, fee) ==
    [p EXCEPT !.pending.best.pendingBaseFee = fee, !.pending.worst.pendingBaseFee = fee,
              !.baseFee.best.pendingBaseFee = fee, !.baseFee.worst.pendingBaseFee = fee,
              !.queued.best.pendingBaseFee = fee, !.queued.worst.pendingBaseFee = fee]

\* what a call returned, with its inputs
Ret(op, txs, mined, reasons, err) ==
    [op |-> op, txs |-> txs, mined |-> mined, reasons |-> reasons, err |-> err]

(***************************************************************************)
(* The public operations.                                                  *)
(***************************************************************************)
\* the end of OnNewBlock, a being the result of addTxsOnNewBlock
onNewBlockTail(a) ==
    IF a.err THEN [p |-> a.p, err |-> "view"]
    ELSE [p |-> [appendAddedHashes(
                     EnforceBestInvariants(
                         promote(EnforceInvariants(
                                     EnforceInvariants(EnforceWorstInvariants(a.p), "baseFee"),
                                     "queued"),
                                 a.p.pendingBaseFee)))
                 EXCEPT !.started = TRUE],
          err |-> "nil"]

\* OnNewBlock from removeMined on, val being the result of validateTxs(unwindTxs)
onNewBlockAdd(p, goodTxs, v, ev, viewFails, ord) ==
    onNewBlockTail(addTxsOnNewBlock(p, p.lastSeenBlock, v, viewFails, EventChanges(ev), goodTxs,
                                    p.pendingBaseFee, ev.gasLimit, ord))

onNewBlockMined(val, v, ev, viewFails, ord) ==
    onNewBlockAdd(resetAddedHashes(removeMined(val.p, ev.mined, ord)), val.goodTxs, v, ev, viewFails, ord)

\* b is the result of setBaseFee: update pendingBaseFee of all queues and slices
baseFeeChanged(b) == IF b.changed THEN setComparators(b.p, b.p.pendingBaseFee) ELSE b.p

\* OnNewBlock once the pool is restored (or was started): from setBaseFee on
onNewBlockBody(p, v, baseFee, ev, viewFails, ord) ==
    onNewBlockMined(validateTxs([baseFeeChanged(setBaseFee(p, baseFee)) EXCEPT !.blockGasLimit = ev.gasLimit],
                                ev.unwind, [i \in 1..Len(ev.unwind) |-> FALSE], v),
                    v, ev, viewFails, ord)

\* f is the result of fromDB
onNewBlockRestored(f, v, baseFee, ev, viewFails, ord) ==
    IF f.err THEN [p |-> f.p, err |-> "view"]
    ELSE onNewBlockBody(f.p, v, baseFee, ev, viewFails, ord)

\* OnNewBlock once lastSeenBlock holds the height of the batch
onNewBlockAt(p, d, v, baseFee, ev, viewFails, ord) ==
    IF p.started THEN onNewBlockBody(p, v, baseFee, ev, viewFails, ord)
    ELSE onNewBlockRestored(fromDB(p, d, v, viewFails, ord), v, baseFee, ev, viewFails, ord)

onNewBlock(p, d, v, baseFee, ev, viewFails, ord) ==
    onNewBlockAt([p EXCEPT !.lastSeenBlock = @ + 1], d, v, baseFee, ev, viewFails, ord)

OnNewBlock(baseFee, ev, viewFails, ord) ==
    /\ steps < MaxOps
    /\ ev.pre \in {-1, view["A"].nonce}
    /\ viewFails => fails < MaxFails
    /\ \E r \in {onNewBlock(pool, db, ApplyEvent(view, ev), baseFee, ev, viewFails, ord)} :
          /\ viewFails => r.err = "view"
          /\ pool' = collect(r.p)
          /\ ret' = Ret("OnNewBlock", ev.unwind, ev.mined, <<>>, r.err)
    /\ view' = ApplyEvent(view, ev)
    /\ fails' = IF viewFails THEN fails + 1 ELSE fails
    /\ steps' = steps + 1
    /\ UNCHANGED <<db, u64in, u64out, lock, search, calls, newPendingTxs>>

\* the hashes AddLocalTxs appends to promoted: newTxs.txs[i] where reasons[i] is Success
RECURSIVE successes(_, _, _)
successes(reasons, newTxs, i) ==
    IF i > Len(reasons) THEN <<>>
    ELSE (IF reasons[i] = "Success" THEN <<newTxs[i]>> ELSE <<>>) \o successes(reasons, newTxs, i + 1)

\* the end of AddLocalTxs, f being the result of fillDiscardReasons
addLocalTxsTail(p, newTxs, f) ==
    IF f.panic THEN [p |-> p, reasons |-> <<>>, err |-> "panic"]
    ELSE [p |-> [p EXCEPT !.promoted = @ \o successes(f.reasons, newTxs, 1)],
          reasons |-> f.reasons, err |-> "nil"]

addLocalTxsFill(p, newTxs, reasons) ==
    addLocalTxsTail(p, newTxs, fillDiscardReasons(reasons, newTxs, p.discardReasonsLRU))

\* AddLocalTxs after addTxs returned a: reasons[i] = addReasons[i] unless NotSet
addLocalTxsAdded(val, a) ==
    IF a.err THEN [p |-> a.p, reasons |-> <<>>, err |-> "view"]
    ELSE addLocalTxsFill(appendAddedHashes(a.p), val.goodTxs,
                         [i \in 1..Len(val.reasons) |->
                             IF i <= Len(a.reasons) /\ a.reasons[i] # "NotSet" THEN a.reasons[i]
                             ELSE val.reasons[i]])

\* the call of addTxs in AddLocalTxs and in processRemoteTxs
addTxsCall(p, val, v, viewFails, ord) ==
    addTxs(p, p.lastSeenBlock, v, viewFails, val.goodTxs, val.goodIsLocal, TRUE,
           p.pendingBaseFee, p.blockGasLimit, ord)

\* AddLocalTxs after validateTxs returned val
addLocalTxsValidated(val, v, viewFails, ord) ==
    addLocalTxsAdded(val, addTxsCall(resetAddedHashes(val.p), val, v, viewFails, ord))

\* AddLocalTxs without the Started check
addLocalTxsUnstarted(p, v, txs, viewFails, ord) ==
    addLocalTxsValidated(validateTxs(p, txs, [i \in 1..Len(txs) |-> TRUE], v), v, viewFails, ord)

addLocalTxs(p, v, txs, viewFails, ord) ==
    IF ~p.started THEN [p |-> p, reasons |-> <<>>, err |-> "not started"]
    ELSE addLocalTxsValidated(validateTxs(p, txs, [i \in 1..Len(txs) |-> TRUE], v), v, viewFails, ord)

AddLocalTxs(txs, viewFails, ord) ==
    /\ steps < MaxOps
    /\ viewFails => fails < MaxFails
    /\ \E r \in {addLocalTxs(pool, view, txs, viewFails, ord)} :
          /\ viewFails => r.err = "view"
          /\ pool' = collect(r.p)
          /\ ret' = Ret("AddLocalTxs", txs, <<>>, r.reasons, r.err)
    /\ fails' = IF viewFails THEN fails + 1 ELSE fails
    /\ steps' = steps + 1
    /\ UNCHANGED <<db, view, u64in, u64out, lock, search, calls, newPendingTxs>>

AddRemoteTxs(txs) ==
    /\ steps < MaxOps
    /\ pool' = [pool EXCEPT !.unprocessedRemoteTxs =
                    @ \o selectSeq(txs, IdHashes \ pool.unprocessedRemoteByHash)]
    /\ ret' = Ret("AddRemoteTxs", txs, <<>>, <<>>, "nil")
    /\ steps' = steps + 1
    /\ UNCHANGED <<db, view, fails, u64in, u64out, lock, search, calls, newPendingTxs>>

\* the end of processRemoteTxs, p being the pool after appendAddedHashes.
\* ctxDone: the select on the notification takes the ctx.Done() case
processRemoteTxsTail(p, ctxDone) ==
    IF ctxDone /\ Len(p.promoted) > 0 THEN [p |-> p, err |-> "nil", done |-> TRUE]
    ELSE [p |-> [p EXCEPT !.unprocessedRemoteTxs = <<>>, !.unprocessedRemoteByHash = {}],
          err |-> "nil", done |-> FALSE]

\* processRemoteTxs after addTxs returned a
processRemoteTxsAdded(a, ctxDone) ==
    IF a.err THEN [p |-> a.p, err |-> "view", done |-> FALSE]
    ELSE processRemoteTxsTail(appendAddedHashes(a.p), ctxDone)

processRemoteTxsValidated(val, v, viewFails, ctxDone, ord) ==
    processRemoteTxsAdded(addTxsCall(resetAddedHashes(val.p), val, v, viewFails, ord), ctxDone)

processRemoteTxs(p, v, viewFails, ctxDone, ord) ==
    IF ~p.started THEN [p |-> p, err |-> "not started", done |-> FALSE]
    ELSE IF Len(p.unprocessedRemoteTxs) = 0 THEN [p |-> p, err |-> "nil", done |-> FALSE]
    ELSE processRemoteTxsValidated(validateTxs(p, p.unprocessedRemoteTxs,
                                               [i \in 1..Len(p.unprocessedRemoteTxs) |-> FALSE], v),
                                   v, viewFails, ctxDone, ord)

ProcessRemoteTxs(viewFails, ctxDone, ord) ==
    /\ steps < MaxOps
    /\ viewFails => fails < MaxFails
    /\ \E r \in {processRemoteTxs(pool, view, viewFails, ctxDone, ord)} :
          /\ viewFails => r.err = "view"
          /\ ctxDone => r.done
          /\ pool' = collect(r.p)
          /\ ret' = Ret("processRemoteTxs", pool.unprocessedRemoteTxs, <<>>, <<>>, r.err)
    /\ fails' = IF viewFails THEN fails + 1 ELSE fails
    /\ steps' = steps + 1
    /\ UNCHANGED <<db, view, u64in, u64out, lock, search, calls, newPendingTxs>>

\* the points at which the write transaction of a flush can fail: the
\* tx.Has of the last deleted transaction, the Put of the pending base fee,
\* and the commit that ends db.Update
FlushFailures == {"none", "delete", "info", "commit"}

\* p.deletedTxs[i] = nil for the first k entries ("" is the nil pointer)
nilDeleted(p, k) ==
    [p EXCEPT !.deletedTxs = [i \in 1..Len(@) |-> IF i <= k THEN "" ELSE @[i]]]

\* the entries of p.deletedTxs ahead of the first nil one
RECURSIVE beforeNil(_, _)
beforeNil(deleted, i) ==
    IF i > Len(deleted) \/ deleted[i] = "" THEN i - 1 ELSE beforeNil(deleted, i + 1)

\* flush: db.Update runs flushLocked and commits; an error or a panic inside
\* rolls the database back and leaves what flushLocked did to the pool
flush(p, d, failAt) ==
    IF "" \in SeqToSet(p.deletedTxs)
    THEN [p |-> nilDeleted(p, beforeNil(p.deletedTxs, 1)), db |-> d, err |-> "panic"]
    ELSE IF failAt = "delete" THEN [p |-> nilDeleted(p, Len(p.deletedTxs) - 1), db |-> d, err |-> "db"]
    ELSE IF failAt = "info"
         THEN [p |-> nilDeleted([p EXCEPT !.mt = clearRlp(@, {p.byHash[h] : h \in withRlp(p)})],
                                Len(p.deletedTxs)),
               db |-> d, err |-> "db"]
    ELSE IF failAt = "commit" THEN [p |-> flushLocked(p, d).p, db |-> d, err |-> "db"]
    ELSE [p |-> flushLocked(p, d).p, db |-> flushLocked(p, d).db, err |-> "nil"]

Flush(failAt) ==
    /\ steps < MaxOps
    /\ failAt # "none" => fails < MaxFails
    /\ failAt = "delete" => Len(pool.deletedTxs) > 0
    /\ \E r \in {flush(pool, db, failAt)} :
          /\ pool' = collect(r.p)
          /\ db' = r.db
          /\ ret' = Ret("flush", <<>>, <<>>, <<>>, r.err)
    /\ fails' = IF failAt # "none" THEN fails + 1 ELSE fails
    /\ steps' = steps + 1
    /\ UNCHANGED <<view, u64in, u64out, lock, search, calls, newPendingTxs>>

\* the process stops and a new one is constructed over the same database
Restart ==
    /\ steps < MaxOps
    /\ pool.started
    /\ pool' = New
    /\ ret' = Ret("New", <<>>, <<>>, <<>>, "nil")
    /\ steps' = steps + 1
    /\ UNCHANGED <<db, view, fails, u64in, u64out, lock, search, calls, newPendingTxs>>

Init ==
    /\ pool = New
    /\ \E s \in InitialStates : db = s.db /\ view = s.view
    /\ ret = Ret("New", <<>>, <<>>, <<>>, "nil")
    /\ steps = 0
    /\ fails = 0
    /\ u64in = <<>>
    /\ u64out = "none"
    /\ lock = Unlocked
    /\ search = NoSearch
    /\ calls = NoCalls
    /\ newPendingTxs = <<>>

(***************************************************************************)
(* Best.  The caller's TxsRlp is the sequence out of encoded transactions;  *)
(* an entry is the id hash of the transaction whose encoding it holds, or   *)
(* "" for an entry Resize created and the loop never wrote.                 *)
(***************************************************************************)

\* the numbers of transactions Best is asked for
BestCounts == {1, 2}

\* getRlpLocked's result when tx.GetOne is not reached or succeeds
getRlpLocked(p, d, hash) ==
    IF hash \in DOMAIN p.byHash /\ p.mt[p.byHash[hash]].rlp THEN hash
    ELSE IF hash \in d.txs THEN hash ELSE ""

\* getRlpLocked reads the database for hash
readsDB(p, hash) == ~(hash \in DOMAIN p.byHash /\ p.mt[p.byHash[hash]].rlp)

\* txs.Resize(min(n, len(p.pending.best.ms)))
Resize(n) == [k \in 1..n |-> ""]

\* Best's loop; i is the 1-based position in best.ms, j the entries written
RECURSIVE bestLoop(_, _, _, _, _, _, _)
bestLoop(p, d, n, getFails, out, i, j) ==
    IF ~(j < n /\ i <= Len(p.pending.best.ms)) THEN [txs |-> out, err |-> "nil"]
    ELSE IF Slots[p.mt[p.pending.best.ms[i]].Tx].gas >= p.blockGasLimit
         THEN bestLoop(p, d, n, getFails, out, i + 1, j)
    ELSE IF getFails /\ readsDB(p, p.mt[p.pending.best.ms[i]].Tx)
         THEN [txs |-> out, err |-> "get"]
    ELSE IF getRlpLocked(p, d, p.mt[p.pending.best.ms[i]].Tx) = ""
         THEN bestLoop(p, d, n, getFails, out, i + 1, j)
    ELSE bestLoop(p, d, n, getFails,
                  [out EXCEPT ![j + 1] = getRlpLocked(p, d, p.mt[p.pending.best.ms[i]].Tx)],
                  i + 1, j + 1)

TxPool_Best(p, d, n, getFails) ==
    bestLoop(p, d, n, getFails, Resize(min(n, Len(p.pending.best.ms))), 1, 0)

\* Best(n, txs, tx): the pool is only read; ret holds what the caller gets
BestTxs(n, getFails) ==
    /\ steps < MaxOps
    /\ \E r \in {TxPool_Best(pool, db, n, getFails)} :
          ret' = [op |-> "Best", txs |-> r.txs, mined |-> <<>>, reasons |-> <<>>, err |-> r.err, n |-> n]
    /\ steps' = steps + 1
    /\ UNCHANGED <<pool, db, view, fails, u64in, u64out, lock, search, calls, newPendingTxs>>

\* IdHashKnown(tx, hash) when tx.Has returns without error
IdHashKnown(p, d, hash) ==
    IF hash \in DOMAIN p.discardReasonsLRU THEN TRUE
    ELSE IF hash \in p.unprocessedRemoteByHash THEN TRUE
    ELSE IF hash \in DOMAIN p.byHash THEN TRUE
    ELSE hash \in d.txs

Next ==
    \/ \E baseFee \in BaseFees, ev \in BlockEvents, viewFails \in BOOLEAN, ord \in Orders :
           OnNewBlock(baseFee, ev, viewFails, ord)
    \/ \E txs \in LocalBatches, viewFails \in BOOLEAN, ord \in Orders : AddLocalTxs(txs, viewFails, ord)
    \/ \E txs \in RemoteBatches : AddRemoteTxs(txs)
    \/ \E viewFails \in BOOLEAN, ctxDone \in BOOLEAN, ord \in Orders :
           ProcessRemoteTxs(viewFails, ctxDone, ord)
    \/ \E failAt \in FlushFailures : Flush(failAt)
    \/ Restart
    \/ \E n \in BestCounts, getFails \in BOOLEAN : BestTxs(n, getFails)

Spec == Init /\ [][Next]_vars

(***************************************************************************)
(* Vocabulary of the properties.                                           *)
(***************************************************************************)
\* the metaTx a sub-pool holds
Members(sp) == SeqToSet(pool[sp].best.ms) \cup SeqToSet(pool[sp].worst.ms)

\* the metaTx byHash holds
Live == {pool.byHash[h] : h \in DOMAIN pool.byHash}

\* the metaTx the nonce index holds
Indexed == {pool.all.tree[k] : k \in DOMAIN pool.all.tree}

TxOf(id) == Slots[pool.mt[id].Tx]

\* the last call ran promote to its end
PromoteReturned ==
    \/ ret.op = "OnNewBlock" /\ ret.err = "nil"
    \/ ret.op = "AddLocalTxs" /\ ret.err \in {"nil", "panic"}
    \/ ret.op = "processRemoteTxs" /\ ret.err = "nil" /\ ret.txs # <<>>

\* C1: every metaTx that is a value of byHash is in exactly one sub-pool, is
\* the entry of the nonce index for its (senderID, nonce) and is the value
\* of byHash at its own id hash.
C1_ByHashConsistent ==
    \A h \in DOMAIN pool.byHash :
        /\ Cardinality({sp \in SubPoolNames : pool.byHash[h] \in Members(sp)}) = 1
        /\ get(pool, TxOf(pool.byHash[h]).senderID, TxOf(pool.byHash[h]).nonce) = pool.byHash[h]
        /\ pool.mt[pool.byHash[h]].Tx = h

\* C2: every metaTx held by a sub-pool is also in byHash and in the nonce
\* index, so a discarded transaction is in no sub-pool.
C2_SubPoolsIndexed ==
    \A sp \in SubPoolNames : \A id \in Members(sp) : id \in Live /\ id \in Indexed

\* C3: after AddLocalTxs, processRemoteTxs or OnNewBlock returns, no sub-pool
\* holds more transactions than its limit.
C3_WithinLimits ==
    ret.op \in {"AddLocalTxs", "processRemoteTxs", "OnNewBlock"}
        => \A sp \in SubPoolNames : PoolLen(pool, sp) <= Limit(sp)

\* C4: at every stable point every Pending transaction has
\* subPool >= BaseFeePoolBits and minFeeCap >= the pool's pendingBaseFee.
C4_PendingQualifies ==
    \A id \in Members("pending") :
        pool.mt[id].subPool >= BaseFeePoolBits /\ pool.mt[id].minFeeCap >= pool.pendingBaseFee

\* C5: after promote returns every BaseFee transaction has
\* subPool >= BaseFeePoolBits and minFeeCap < pendingBaseFee, and every Queued
\* transaction has QueuedPoolBits <= subPool < BaseFeePoolBits.
C5_NoneInWrongPool ==
    PromoteReturned =>
        /\ \A id \in Members("baseFee") :
               pool.mt[id].subPool >= BaseFeePoolBits /\ pool.mt[id].minFeeCap < pool.pendingBaseFee
        /\ \A id \in Members("queued") :
               pool.mt[id].subPool >= QueuedPoolBits /\ pool.mt[id].subPool < BaseFeePoolBits

\* C6: at every stable point pending.Best() is maximal: no other Pending
\* transaction is better than it under the pool's pendingBaseFee.
C6_BestIsMaximal ==
    PoolLen(pool, "pending") > 0 =>
        \A id \in Members("pending") \ {Best(pool, "pending")} :
            ~better(pool.mt[id], pool.mt[Best(pool, "pending")], pool.pendingBaseFee)

\* C7: after OnNewBlock with a mined transaction returns successfully, no
\* metaTx of that sender with a nonce up to the mined one remains in a
\* sub-pool, in the nonce index or in byHash.
C7_MinedRemoved ==
    (ret.op = "OnNewBlock" /\ ret.err = "nil") =>
        \A h \in SeqToSet(ret.mined) :
            \A id \in Live \cup Indexed \cup UNION {Members(sp) : sp \in SubPoolNames} :
                ~(TxOf(id).senderID = Slots[h].senderID /\ TxOf(id).nonce <= Slots[h].nonce)

\* C8: for every (sender, nonce) there is at most one live pooled
\* transaction.
C8_OneLivePerNonce ==
    \A id1 \in Live : \A id2 \in Live :
        (TxOf(id1).senderID = TxOf(id2).senderID /\ TxOf(id1).nonce = TxOf(id2).nonce) => id1 = id2

\* C10: AddLocalTxs returns one reason per input, entry i being the outcome
\* of input i: a validation failure of one input neither aborts the batch
\* nor moves to another input.
C10_ReasonPerInput ==
    (ret.op = "AddLocalTxs" /\ ret.err \notin {"not started", "view"}) =>
        /\ ret.err = "nil"
        /\ Len(ret.reasons) = Len(ret.txs)
        /\ \A i \in 1..Len(ret.reasons) :
               (ret.reasons[i] = "IntrinsicGas") <=> (Slots[ret.txs[i]].gas < CalcIntrinsicGas)

(***************************************************************************)
(* addLocked's replacement test on its own, over the whole uint64 range.   *)
(***************************************************************************)
\* 0, 1, 100, 110, the last value whose product with 110 fits 64 bits, the
\* first that does not, 2^63 and 2^64 - 1
U64Values ==
    {<<0, 0, 0, 0>>, <<1, 0, 0, 0>>, <<100, 0, 0, 0>>, <<110, 0, 0, 0>>,
     <<21448, 15490, 51237, 595>>, <<21449, 15490, 51237, 595>>,
     <<0, 0, 0, 32768>>, <<65535, 65535, 65535, 65535>>}

InitBump ==
    /\ pool = New
    /\ db = EmptyDB
    /\ view = FreshView
    /\ ret = Ret("New", <<>>, <<>>, <<>>, "nil")
    /\ steps = 0
    /\ fails = 0
    /\ u64in \in [foundTip : U64Values, foundFeeCap : U64Values,
                  newTip : U64Values, newFeeCap : U64Values]
    /\ u64out = "none"
    /\ lock = Unlocked
    /\ search = NoSearch
    /\ calls = NoCalls
    /\ newPendingTxs = <<>>

\* the branch addLocked takes for found and mt with these tips and fee caps
Bump ==
    /\ u64out = "none"
    /\ u64out' = IF notReplaced(u64in.foundTip, u64in.foundFeeCap, u64in.newTip, u64in.newFeeCap)
                 THEN "NotReplaced" ELSE "ReplacedByHigherTip"
    /\ UNCHANGED <<pool, db, view, ret, steps, fails, u64in, lock, search, calls, newPendingTxs>>

NextBump == Bump

SpecBump == InitBump /\ [][NextBump]_vars

\* x * k without loss: a fifth limb takes the carry
MulWide(x, k) ==
    LET m1 == x[1] * k
        m2 == x[2] * k + (m1 \div Limb)
        m3 == x[3] * k + (m2 \div Limb)
        m4 == x[4] * k + (m3 \div Limb)
    IN <<m1 % Limb, m2 % Limb, m3 % Limb, m4 % Limb, m4 \div Limb>>

\* x / d for a five-limb x
DivWide(x, d) ==
    LET c5 == x[5]
        c4 == (c5 % d) * Limb + x[4]
        c3 == (c4 % d) * Limb + x[3]
        c2 == (c3 % d) * Limb + x[2]
        c1 == (c2 % d) * Limb + x[1]
    IN <<c1 \div d, c2 \div d, c3 \div d, c4 \div d, c5 \div d>>

\* x >= M * (100 + PriceBump) / 100 in the integers
MeetsBump(x, M) ==
    /\ DivWide(MulWide(M, 100 + PriceBump), 100)[5] = 0
    /\ ~LtU64(x, SubSeq(DivWide(MulWide(M, 100 + PriceBump), 100), 1, 4))

\* C9: for all 64-bit tips and fee caps addLocked replaces the found
\* transaction exactly when new.tip >= M.tip*(100+PriceBump)/100 and
\* new.feeCap >= M.feeCap*(100+PriceBump)/100, and answers NotReplaced
\* otherwise.
C9_BumpExact ==
    u64out # "none" =>
        ((u64out = "ReplacedByHigherTip")
            <=> (MeetsBump(u64in.newTip, u64in.foundTip) /\ MeetsBump(u64in.newFeeCap, u64in.foundFeeCap)))

C12_BufferDistinct ==
    \A i \in 1..Len(pool.unprocessedRemoteTxs) : \A j \in 1..Len(pool.unprocessedRemoteTxs) :
        pool.unprocessedRemoteTxs[i] = pool.unprocessedRemoteTxs[j] => i = j

\* byHash, the nonce index, the sub-pools and the unprocessed buffer of p
PoolAndBuffer(p) ==
    <<p.byHash, p.all, p.pending.best.ms, p.pending.worst.ms, p.baseFee.best.ms, p.baseFee.worst.ms,
      p.queued.best.ms, p.queued.worst.ms, p.mt, p.unprocessedRemoteTxs>>

\* C13: every processRemoteTxs call either leaves the unprocessed buffer
\* empty, or leaves byHash, the nonce index, the sub-pools and the buffer as
\* they were.
C13_AllOrNothing ==
    [][(steps' = steps + 1 /\ ret'.op = "processRemoteTxs")
          => (pool'.unprocessedRemoteTxs = <<>> \/ PoolAndBuffer(pool') = PoolAndBuffer(pool))]_vars

\* the in-memory state an error return is to leave alone
InMemory(p) ==
    <<p.byHash, p.all, p.pending.best.ms, p.pending.worst.ms, p.baseFee.best.ms, p.baseFee.worst.ms,
      p.queued.best.ms, p.queued.worst.ms, p.mt, p.deletedTxs, p.pendingBaseFee, p.lastSeenBlock>>

\* C14: a call of AddLocalTxs, processRemoteTxs or OnNewBlock that returns the
\* error of a failed state view lookup leaves byHash, the nonce index, the
\* sub-pools, the deleted list, pendingBaseFee and lastSeenBlock as they were.
C14_ErrorRollsBack ==
    [][(steps' = steps + 1 /\ ret'.err = "view") => InMemory(pool') = InMemory(pool)]_vars

\* the Pending transactions Best may hand out, in best-slice order: gas under
\* the block gas limit and an encoded form in memory or in the database
EligibleBest ==
    SelectSeq([k \in 1..Len(pool.pending.best.ms) |-> pool.mt[pool.pending.best.ms[k]].Tx],
              LAMBDA h : /\ Slots[h].gas < pool.blockGasLimit
                         /\ \/ h \in DOMAIN pool.byHash /\ pool.mt[pool.byHash[h]].rlp
                            \/ h \in db.txs)

\* C15: a Best(n, out) that returned without error left in out exactly the
\* first up-to-n eligible Pending transactions in best-slice order: no more
\* than n entries, and no empty entry for a skipped transaction.
C15_BestExact ==
    (ret.op = "Best" /\ ret.err = "nil")
        => /\ Len(ret.txs) <= ret.n
           /\ \A k \in 1..Len(ret.txs) : ret.txs[k] # ""
           /\ ret.txs = SubSeq(EligibleBest, 1, min(ret.n, Len(EligibleBest)))

\* C16: IdHashKnown(hash) is true exactly when hash is in the discard-reason
\* LRU, is a remote transaction buffered by AddRemoteTxs and not yet
\* processed, is a key of byHash, or is a persisted PoolTransaction key; so it
\* is true as soon as AddRemoteTxs has buffered the transaction.
C16_KnownIffHeld ==
    \A hash \in IdHashes :
        IdHashKnown(pool, db, hash) <=> \/ hash \in DOMAIN pool.discardReasonsLRU
                                        \/ hash \in SeqToSet(pool.unprocessedRemoteTxs)
                                        \/ hash \in DOMAIN pool.byHash
                                        \/ hash \in db.txs

\* C17: no sender has more than AccountSlots transactions in the nonce index,
\* also when one batch brings several transactions of the sender.
C17_SenderWithinSlots ==
    \A s \in {Slots[h].senderID : h \in IdHashes} :
        Cardinality({k \in DOMAIN pool.all.tree : k[1] = s}) <= AccountSlots

(***************************************************************************)
(* validateTx on full-width values.  uint64 values are four 16-bit limbs,  *)
(* uint256 values sixteen, least significant first.                        *)
(***************************************************************************)
TxGasContractCreation == 53000
TxDataNonZeroGasEIP2028 == 16
TxDataZeroGas == 4

Pad(x, n) == [k \in 1..n |-> IF k <= Len(x) THEN x[k] ELSE 0]

ToU256(n) == Pad(ToU64(n), 16)

MaxU64 == [k \in 1..4 |-> Limb - 1]

MaxU256 == [k \in 1..16 |-> Limb - 1]

\* x + y from limb k on, carry being the carry into limb k; the last limb
\* is the carry out of the top limb
RECURSIVE addFrom(_, _, _, _)
addFrom(x, y, k, carry) ==
    IF k > Len(x) THEN <<carry>>
    ELSE <<(x[k] + y[k] + carry) % Limb>> \o addFrom(x, y, k + 1, (x[k] + y[k] + carry) \div Limb)

\* x + y without loss: one more limb takes the carry
AddCarry(x, y) == addFrom(x, y, 1, 0)

\* x + y as Go and uint256.Add compute it: the carry out of the top limb is lost
AddMod(x, y) == SubSeq(AddCarry(x, y), 1, Len(x))

\* x - y from limb k on, borrow being the borrow out of limb k - 1
RECURSIVE subFrom(_, _, _, _)
subFrom(x, y, k, borrow) ==
    IF k > Len(x) THEN <<>>
    ELSE <<(x[k] - y[k] - borrow + Limb) % Limb>>
         \o subFrom(x, y, k + 1, IF x[k] - y[k] - borrow < 0 THEN 1 ELSE 0)

\* x - y as Go computes it on unsigned values
SubMod(x, y) == subFrom(x, y, 1, 0)

RECURSIVE ltFrom(_, _, _)
ltFrom(x, y, k) == IF k = 0 THEN FALSE ELSE IF x[k] # y[k] THEN x[k] < y[k] ELSE ltFrom(x, y, k - 1)

\* x < y for limb sequences of one length
LtLimbs(x, y) == ltFrom(x, y, Len(x))

Bytes(x) == [k \in 1..(2 * Len(x)) |-> IF k % 2 = 1 THEN x[(k + 1) \div 2] % 256 ELSE x[k \div 2] \div 256]

FromBytes(b) == [k \in 1..(Len(b) \div 2) |-> b[2 * k - 1] + 256 * b[2 * k]]

\* the sum of a[i] * b[k + 1 - i] over the i from i on
RECURSIVE colSum(_, _, _, _)
colSum(a, b, k, i) ==
    IF i > k \/ i > Len(a) THEN 0
    ELSE (IF k + 1 - i <= Len(b) THEN a[i] * b[k + 1 - i] ELSE 0) + colSum(a, b, k, i + 1)

\* the bytes of a * b from byte k on, carry being the carry into byte k
RECURSIVE mulFrom(_, _, _, _)
mulFrom(a, b, k, carry) ==
    IF k > Len(a) + Len(b) THEN <<>>
    ELSE <<(colSum(a, b, k, 1) + carry) % 256>>
         \o mulFrom(a, b, k + 1, (colSum(a, b, k, 1) + carry) \div 256)

MulBytes(a, b) == mulFrom(a, b, 1, 0)

\* x * y of two uint64, all 128 bits of it
MulFull(x, y) == FromBytes(MulBytes(Bytes(x), Bytes(y)))

\* CalcIntrinsicGas(dataLen, dataNonZeroLen, nil, creation, true, true)
intrinsicStart(creation) == ToU64(IF creation THEN TxGasContractCreation ELSE TxGas)

afterNonZero(creation, nz) == AddMod(intrinsicStart(creation), MulU64(nz, TxDataNonZeroGasEIP2028))

CalcIntrinsicGasU64(dataLen, nz, creation) ==
    IF dataLen = ToU64(0) THEN [gas |-> intrinsicStart(creation), reason |-> "Success"]
    ELSE IF LtU64(DivU64(SubMod(MaxU64, intrinsicStart(creation)), TxDataNonZeroGasEIP2028), nz)
         THEN [gas |-> ToU64(0), reason |-> "GasUintOverflow"]
    ELSE IF LtU64(DivU64(SubMod(MaxU64, afterNonZero(creation, nz)), TxDataZeroGas), SubMod(dataLen, nz))
         THEN [gas |-> ToU64(0), reason |-> "GasUintOverflow"]
    ELSE [gas |-> AddMod(afterNonZero(creation, nz), MulU64(SubMod(dataLen, nz), TxDataZeroGas)),
          reason |-> "Success"]

\* total := gas; total.Mul(total, tip); total.Add(total, &txn.value)
totalCost(txn) == AddMod(Pad(MulFull(txn.gas, txn.tip), 16), txn.value)

\* validateTx; pooled is p.all.count(txn.senderID)
validateTxU(txn, isLocal, pooled, senderNonce, senderBalance) ==
    IF ~isLocal /\ txn.feeCap < MinFeeCap THEN "UnderPriced"
    ELSE IF CalcIntrinsicGasU64(txn.dataLen, txn.dataNonZeroLen, txn.creation).reason # "Success"
         THEN CalcIntrinsicGasU64(txn.dataLen, txn.dataNonZeroLen, txn.creation).reason
    ELSE IF LtU64(txn.gas, CalcIntrinsicGasU64(txn.dataLen, txn.dataNonZeroLen, txn.creation).gas)
         THEN "IntrinsicGas"
    ELSE IF pooled > AccountSlots THEN "Spammer"
    ELSE IF senderNonce > txn.nonce THEN "NonceTooLow"
    ELSE IF LtLimbs(senderBalance, totalCost(txn)) THEN "InsufficientFunds"
    ELSE "Success"

\* the transactions and sender states validateTx is given
ValidateInputs ==
    [isLocal : BOOLEAN, feeCap : {MinFeeCap - 1, MinFeeCap},
     data : {<<ToU64(0), ToU64(0)>>, <<ToU64(1), ToU64(1)>>, <<MaxU64, MaxU64>>},
     creation : BOOLEAN, gas : {ToU64(TxGas), ToU64(TxGas + TxDataNonZeroGasEIP2028), MaxU64},
     nonce : {1}, tip : {ToU64(1), MaxU64}, value : {ToU256(0), ToU256(1), MaxU256},
     pooled : {AccountSlots, AccountSlots + 1}, senderNonce : {1, 2},
     senderBalance : {ToU256(TxGas - 1), ToU256(TxGas), MaxU256}]

InputTxn(in) ==
    [feeCap |-> in.feeCap, dataLen |-> in.data[1], dataNonZeroLen |-> in.data[2], creation |-> in.creation,
     gas |-> in.gas, nonce |-> in.nonce, tip |-> in.tip, value |-> in.value]

InitValidate ==
    /\ pool = New
    /\ db = EmptyDB
    /\ view = FreshView
    /\ ret = Ret("New", <<>>, <<>>, <<>>, "nil")
    /\ steps = 0
    /\ fails = 0
    /\ u64in \in ValidateInputs
    /\ u64out = "none"
    /\ lock = Unlocked
    /\ search = NoSearch
    /\ calls = NoCalls
    /\ newPendingTxs = <<>>

Validate ==
    /\ u64out = "none"
    /\ u64out' = validateTxU(InputTxn(u64in), u64in.isLocal, u64in.pooled, u64in.senderNonce,
                             u64in.senderBalance)
    /\ UNCHANGED <<pool, db, view, ret, steps, fails, u64in, lock, search, calls, newPendingTxs>>

\* needBalance := gas; needBalance.Mul(needBalance, feeCap); needBalance.Add(needBalance, &mt.Tx.value)
needBalance(txn) == AddMod(Pad(MulFull(txn.gas, ToU64(txn.feeCap)), 16), txn.value)

\* the EnoughBalance test of onSenderStateChange for the first pooled
\* transaction of a sender, its nonce being at or above the state nonce:
\* cumulativeRequiredBalance.Add(cumulativeRequiredBalance, needBalance), then
\* senderBalance.Gt(...) || senderBalance.Eq(...)
enoughBalance(txn, senderBalance) == ~LtLimbs(senderBalance, AddMod(ToU256(0), needBalance(txn)))

\* addTxs after validateTx answered Success: the sender of the transaction
\* is reclassified
Reclassify ==
    /\ u64out = "Success"
    /\ ret.op = "New"
    /\ ret' = [op |-> "onSenderStateChange",
               enoughBalance |-> enoughBalance(InputTxn(u64in), u64in.senderBalance)]
    /\ UNCHANGED <<pool, db, view, steps, fails, u64in, u64out, lock, search, calls, newPendingTxs>>

NextValidate == Validate \/ Reclassify

SpecValidate == InitValidate /\ [][NextValidate]_vars

\* state balance < gas * tip + value in the integers
LacksFunds(in) ==
    LtLimbs(Pad(in.senderBalance, 17), AddCarry(Pad(MulFull(in.gas, in.tip), 16), in.value))

\* the reason of the first failing check, in the order of the checks
FirstFailing(in) ==
    IF ~in.isLocal /\ in.feeCap < MinFeeCap THEN "UnderPriced"
    ELSE IF CalcIntrinsicGasU64(in.data[1], in.data[2], in.creation).reason # "Success"
         THEN "GasUintOverflow"
    ELSE IF LtU64(in.gas, CalcIntrinsicGasU64(in.data[1], in.data[2], in.creation).gas) THEN "IntrinsicGas"
    ELSE IF in.pooled > AccountSlots THEN "Spammer"
    ELSE IF in.senderNonce > in.nonce THEN "NonceTooLow"
    ELSE IF LacksFunds(in) THEN "InsufficientFunds"
    ELSE "Success"

\* C18: validateTx returns the reason of the first failing check in the order
\* UnderPriced (non-local with feeCap < MinFeeCap), GasUintOverflow or
\* IntrinsicGas, Spammer, NonceTooLow (state nonce > tx.nonce),
\* InsufficientFunds (state balance < gas*tip + value), and Success only when
\* every check passes.
C18_FirstFailingCheck ==
    u64out # "none" => u64out = FirstFailing(u64in)

\* C19: the hash list one AddLocalTxs, processRemoteTxs or OnNewBlock call
\* sends on newPendingTxs (promoted, when the call returns without error)
\* holds exactly the id hashes of the transactions PendingPool.Add took in
\* during that call, each once, in that order.
C19_PromotedIsPendingAdded ==
    (ret.op \in {"AddLocalTxs", "processRemoteTxs", "OnNewBlock"} /\ ret.err = "nil")
        => pool.promoted = pool.pending.added

(***************************************************************************)
(* Pending overflow among transactions that differ only in their tip.      *)
(***************************************************************************)
\* every batch of distinct transactions of TipHashes, in every order
TipBatches ==
    {<<a>> : a \in TipHashes}
    \cup {q \in [1..2 -> TipHashes] : q[1] # q[2]}
    \cup {q \in [1..3 -> TipHashes] : q[1] # q[2] /\ q[1] # q[3] /\ q[2] # q[3]}

\* the orders in which the map of changed senders is visited
TipOrders == {q \in [1..3 -> {"C", "D", "E"}] : q[1] # q[2] /\ q[1] # q[3] /\ q[2] # q[3]}

\* the pending base fees of the blocks: every tip stays the effective tip
TipBaseFees == {0, 10}

InitOverflow ==
    /\ pool = New
    /\ db = EmptyDB
    /\ view = FreshView
    /\ ret = Ret("New", <<>>, <<>>, <<>>, "nil")
    /\ steps = 0
    /\ fails = 0
    /\ u64in = <<>>
    /\ u64out = "none"
    /\ lock = Unlocked
    /\ search = NoSearch
    /\ calls = NoCalls
    /\ newPendingTxs = <<>>

NextOverflow ==
    \/ \E baseFee \in TipBaseFees, ord \in TipOrders :
           OnNewBlock(baseFee, BlockEvent(-1, -1, -1, <<>>, <<>>), FALSE, ord)
    \/ \E txs \in TipBatches, ord \in TipOrders : AddLocalTxs(txs, FALSE, ord)
    \/ \E n \in BestCounts : BestTxs(n, FALSE)

SpecOverflow == InitOverflow /\ [][NextOverflow]_vars

\* min(minFeeCap - pendingBaseFee, minTip) of a transaction that is the only
\* one of its sender
EffectiveTipOf(h) == min(Slots[h].feeCap - pool.pendingBaseFee, Slots[h].tip)

\* C20: of the eligible transactions that overflow Pending, promote discards
\* with PendingPoolOverflow those with the lowest effective tip: no
\* transaction left in Pending has a lower effective tip than a discarded
\* one, and Best lists the transactions by descending effective tip.
C20_LowestTipEvicted ==
    /\ \A h \in DOMAIN pool.discardReasonsLRU :
           (pool.discardReasonsLRU[h] = "PendingPoolOverflow" /\ h \notin DOMAIN pool.byHash)
               => \A id \in Members("pending") : EffectiveTipOf(h) <= EffectiveTipOf(pool.mt[id].Tx)
    /\ (ret.op = "Best" /\ ret.err = "nil")
           => \A i \in 1..Len(ret.txs), j \in 1..Len(ret.txs) :
                  (i < j /\ ret.txs[i] # "" /\ ret.txs[j] # "")
                      => EffectiveTipOf(ret.txs[i]) >= EffectiveTipOf(ret.txs[j])

\* C21: a flush whose write transaction fails leaves the in-memory state as
\* it was before the flush: the deleted list holds every discarded metaTx and
\* the pooled transactions keep their encoded bytes.
C21_FailedFlushReplayable ==
    [][(steps' = steps + 1 /\ ret'.op = "flush" /\ ret'.err = "db")
          => (pool'.deletedTxs = pool.deletedTxs /\ pool'.mt = pool.mt)]_vars

\* the pool a fresh process restores from what a successful flush of pool
\* leaves in the database, the changed senders being visited in order ord
Restored(ord) == fromDB(New, flushLocked(pool, db).db, view, FALSE, ord).p

\* the keys of byHash whose transactions pass validateTx in the fresh pool
\* under the current state view
StillValid(ord) ==
    {h \in DOMAIN pool.byHash :
         validateTx([New EXCEPT !.isLocalLRU = pool.isLocalLRU], h, h \in pool.isLocalLRU, view) = "Success"}

\* C22: from every reachable pool state, a successful flush followed by a
\* restart and the restore from the database gives a pool whose byHash keys
\* are the keys byHash had before the flush that still pass validation under
\* the current account state.
C22_RoundTrip ==
    (pool.started /\ "" \notin SeqToSet(pool.deletedTxs))
        => \A ord \in Orders : DOMAIN Restored(ord).byHash = StillValid(ord)

(***************************************************************************)
(* Concurrent callers.  Every public operation runs as a sequence of steps  *)
(* of its caller: the work ahead of the lock, p.lock.Lock() or RLock(), the *)
(* body, and the deferred Unlock() or RUnlock().                            *)
(***************************************************************************)
WriteOps == {"OnNewBlock", "AddLocalTxs", "AddRemoteTxs", "processRemoteTxs", "flush"}

ReadOps == {"NonceFromAddress", "IdHashKnown"}

\* the operations that return an error ahead of the lock while the pool is
\* not started
StartedOps == {"AddLocalTxs", "processRemoteTxs"}

\* the arguments of a call; "Z" is an address no sender id is registered for
OpArgs(op) ==
    CASE op = "NonceFromAddress" -> {"A", "B", "Z"}
      [] op = "IdHashKnown" -> {"a0", "b1"}
      [] OTHER -> {""}

\* the inputs of the writers
CallBaseFee == 10
CallLocalTxs == <<"a2">>
CallRemoteTxs == <<"b1", "a1">>
CallOrder == <<"A", "B">>

\* the order of the sender ids in the nonce index
SenderRank == [s \in Senders |-> CASE s = "A" -> 1 [] s = "B" -> 2 [] s = "C" -> 3 [] s = "D" -> 4 [] OTHER -> 5]

\* sync.RWMutex: Lock() returns when nobody holds the lock, RLock() when no
\* writer holds it
canLockUnchecked(l) == TRUE

canLock(l) == l.w = "none" /\ l.r = {}

canRLock(l) == l.w = "none"

\* the channel is handed to New by its owner: it can hold announcements of
\* an earlier pool that nobody has received
InitialChannels == UNION {[1..n -> {<<"a0">>}] : n \in 0..ChanCap}

InitCalls ==
    /\ pool = New
    /\ db = [txs |-> {"a0", "a1", "b0"}, locals |-> {"b0"}, baseFee |-> CallBaseFee, lastSeen |-> 0]
    /\ view = FreshView
    /\ ret = Ret("New", <<>>, <<>>, <<>>, "nil")
    /\ steps = 0
    /\ fails = 0
    /\ u64in = <<>>
    /\ u64out = "none"
    /\ lock = Unlocked
    /\ search = NoSearch
    /\ calls = NoCalls
    /\ newPendingTxs \in InitialChannels

\* caller c enters op; AddLocalTxs and processRemoteTxs return ahead of the
\* lock when the pool is not started
Call(c, op, arg) ==
    /\ steps < MaxOps
    /\ calls[c].pc = "idle"
    /\ calls' = [calls EXCEPT ![c] = IF op \in StartedOps /\ ~pool.started THEN Idle
                                     ELSE [op |-> op, pc |-> "begin", arg |-> arg, res |-> <<0, FALSE>>]]
    /\ steps' = steps + 1
    /\ UNCHANGED <<pool, db, view, ret, fails, u64in, u64out, lock, search, newPendingTxs>>

\* p.lock.Lock()
Lock(c) ==
    /\ calls[c].pc = "begin"
    /\ calls[c].op \in WriteOps
    /\ canLock(lock)
    /\ lock' = [lock EXCEPT !.w = c]
    /\ calls' = [calls EXCEPT ![c].pc = "locked"]
    /\ UNCHANGED <<pool, db, view, ret, steps, fails, u64in, u64out, search, newPendingTxs>>

\* the first write of a writer: OnNewBlock stores lastSeenBlock, AddRemoteTxs
\* appends the first transaction of its batch
firstWrite(op, p) ==
    CASE op = "OnNewBlock" -> [p EXCEPT !.lastSeenBlock = @ + 1]
      [] op = "AddRemoteTxs" -> [p EXCEPT !.unprocessedRemoteTxs =
                                    @ \o selectSeq(SubSeq(CallRemoteTxs, 1, 1),
                                                   IdHashes \ p.unprocessedRemoteByHash)]
      [] OTHER -> p

\* the writers that announce the promoted hashes on newPendingTxs
NotifyingOps == {"OnNewBlock", "AddLocalTxs", "processRemoteTxs"}

\* select { case <-ctx.Done(): ...; case p.newPendingTxs <- common.Copy(p.promoted): ...; default: }
\* on the channel ch: the channel after it, whether the hashes were sent, and
\* whether a case was ready (a select with no ready case blocks).  ctxDone:
\* the select of processRemoteTxs takes its ctx.Done() case
selectNoDefault(ch, promoted, ctxDone) ==
    IF ctxDone THEN [ch |-> ch, sent |-> FALSE, ready |-> TRUE]
    ELSE IF Len(ch) < ChanCap THEN [ch |-> Append(ch, promoted), sent |-> TRUE, ready |-> TRUE]
    ELSE [ch |-> ch, sent |-> FALSE, ready |-> FALSE]

select(ch, promoted, ctxDone) ==
    IF ctxDone THEN [ch |-> ch, sent |-> FALSE, ready |-> TRUE]
    ELSE IF Len(ch) < ChanCap THEN [ch |-> Append(ch, promoted), sent |-> TRUE, ready |-> TRUE]
    ELSE [ch |-> ch, sent |-> FALSE, ready |-> TRUE]

\* the body of a writer after its first write and up to its select on
\* newPendingTxs (to its end when it has none): the pool and the database it
\* leaves, and whether it reaches the select with a non-empty p.promoted
restOfBody(op, p, d, v) ==
    CASE op = "OnNewBlock" ->
             [p |-> onNewBlockAt(p, d, v, CallBaseFee, BlockEvent(-1, -1, -1, <<>>, <<>>), FALSE,
                                 CallOrder).p,
              db |-> d,
              notifies |-> Len(onNewBlockAt(p, d, v, CallBaseFee, BlockEvent(-1, -1, -1, <<>>, <<>>),
                                            FALSE, CallOrder).p.promoted) > 0]
      [] op = "AddRemoteTxs" ->
             [p |-> [p EXCEPT !.unprocessedRemoteTxs =
                         @ \o selectSeq(Tail(CallRemoteTxs), IdHashes \ p.unprocessedRemoteByHash)],
              db |-> d, notifies |-> FALSE]
      [] op = "AddLocalTxs" ->
             [p |-> addLocalTxs(p, v, CallLocalTxs, FALSE, CallOrder).p, db |-> d,
              notifies |-> /\ addLocalTxs(p, v, CallLocalTxs, FALSE, CallOrder).err = "nil"
                           /\ Len(addLocalTxs(p, v, CallLocalTxs, FALSE, CallOrder).p.promoted) > 0]
      [] op = "processRemoteTxs" ->
             [p |-> processRemoteTxs(p, v, FALSE, TRUE, CallOrder).p, db |-> d,
              notifies |-> processRemoteTxs(p, v, FALSE, TRUE, CallOrder).done]
      [] OTHER -> [p |-> flush(p, d, "none").p, db |-> flush(p, d, "none").db, notifies |-> FALSE]

Mutate(c) ==
    /\ calls[c].pc = "locked"
    /\ pool' = firstWrite(calls[c].op, pool)
    /\ calls' = [calls EXCEPT ![c].pc = "mutating"]
    /\ UNCHANGED <<db, view, ret, steps, fails, u64in, u64out, lock, search, newPendingTxs>>

\* the keys a writer can leave in BySenderAndNonce.search: it is overwritten
\* by every ascend, descend and get of the body
WriterSearches == {[senderID |-> s, nonce |-> n] : s \in {"A", "B"}, n \in {0, MaxUint64}}

Commit(c) ==
    /\ calls[c].pc = "mutating"
    /\ \E r \in {restOfBody(calls[c].op, pool, db, view)} :
          /\ pool' = collect(r.p)
          /\ db' = r.db
          /\ calls' = [calls EXCEPT ![c].pc = IF r.notifies THEN "selecting" ELSE "committed"]
    /\ search' \in {search} \cup WriterSearches
    /\ UNCHANGED <<view, ret, steps, fails, u64in, u64out, lock, newPendingTxs>>

\* what follows the select: processRemoteTxs empties the buffer of remote
\* transactions unless it returned from the ctx.Done() case
afterSelect(op, p, ctxDone) ==
    IF op = "processRemoteTxs" /\ ~ctxDone
    THEN [p EXCEPT !.unprocessedRemoteTxs = <<>>, !.unprocessedRemoteByHash = {}]
    ELSE p

\* the select on newPendingTxs and the rest of the call.  res: the number
\* of hashes offered to the channel and whether they were sent
Notify(c) ==
    /\ calls[c].pc = "selecting"
    /\ \E ctxDone \in BOOLEAN :
          /\ ctxDone => calls[c].op = "processRemoteTxs"
          /\ \E sel \in {select(newPendingTxs, pool.promoted, ctxDone)} :
                /\ sel.ready
                /\ newPendingTxs' = sel.ch
                /\ calls' = [calls EXCEPT ![c].pc = "committed",
                                          ![c].res = <<Len(pool.promoted), sel.sent>>]
          /\ pool' = afterSelect(calls[c].op, pool, ctxDone)
    /\ UNCHANGED <<db, view, ret, steps, fails, u64in, u64out, lock, search>>

\* MainLoop takes an announcement from the channel
Receive ==
    /\ newPendingTxs # <<>>
    /\ newPendingTxs' = Tail(newPendingTxs)
    /\ UNCHANGED <<pool, db, view, ret, steps, fails, u64in, u64out, lock, search, calls>>

\* defer p.lock.Unlock()
Unlock(c) ==
    /\ calls[c].pc = "committed"
    /\ lock' = [lock EXCEPT !.w = "none"]
    /\ calls' = [calls EXCEPT ![c] = Idle]
    /\ UNCHANGED <<pool, db, view, ret, steps, fails, u64in, u64out, search, newPendingTxs>>

\* p.lock.RLock()
RLock(c) ==
    /\ calls[c].pc = "begin"
    /\ calls[c].op \in ReadOps
    /\ canRLock(lock)
    /\ lock' = [lock EXCEPT !.r = @ \cup {c}]
    /\ calls' = [calls EXCEPT ![c].pc = "rlocked"]
    /\ UNCHANGED <<pool, db, view, ret, steps, fails, u64in, u64out, search, newPendingTxs>>

\* IdHashKnown's body
Query(c) ==
    /\ calls[c].pc = "rlocked"
    /\ calls[c].op = "IdHashKnown"
    /\ calls' = [calls EXCEPT ![c].pc = "answered",
                              ![c].res = <<0, IdHashKnown(pool, db, calls[c].arg)>>]
    /\ UNCHANGED <<pool, db, view, ret, steps, fails, u64in, u64out, lock, search, newPendingTxs>>

\* NonceFromAddress: p.senders.getID(addr), then in BySenderAndNonce.nonce
\* s := b.search; s.metaTx.Tx.senderID = senderID.  s copies the pointer, so
\* the write goes to the one metaTx all callers share
WriteSender(c) ==
    /\ calls[c].pc = "rlocked"
    /\ calls[c].op = "NonceFromAddress"
    /\ IF calls[c].arg \in Senders
       THEN /\ search' = [search EXCEPT !.senderID = calls[c].arg]
            /\ calls' = [calls EXCEPT ![c].pc = "wroteSender"]
       ELSE /\ calls' = [calls EXCEPT ![c].pc = "answered", ![c].res = <<0, FALSE>>]
            /\ UNCHANGED search
    /\ UNCHANGED <<pool, db, view, ret, steps, fails, u64in, u64out, lock, newPendingTxs>>

\* s.metaTx.Tx.nonce = math.MaxUint64
WriteNonce(c) ==
    /\ calls[c].pc = "wroteSender"
    /\ search' = [search EXCEPT !.nonce = MaxUint64]
    /\ calls' = [calls EXCEPT ![c].pc = "wroteNonce"]
    /\ UNCHANGED <<pool, db, view, ret, steps, fails, u64in, u64out, lock, newPendingTxs>>

\* the keys of the nonce index at or below key s
atOrBelow(tree, s) ==
    {k \in DOMAIN tree : \/ SenderRank[k[1]] < SenderRank[s.senderID]
                         \/ k[1] = s.senderID /\ k[2] <= s.nonce}

\* the greatest key of the non-empty set ks
greatest(ks) ==
    CHOOSE k \in ks : \A j \in ks : \/ SenderRank[j[1]] < SenderRank[k[1]]
                                    \/ j[1] = k[1] /\ j[2] <= k[2]

\* b.tree.DescendLessOrEqual(s, f) with the f of BySenderAndNonce.nonce: f
\* looks at the first item only and takes its nonce when it is of senderID
descendLessOrEqual(tree, s, senderID) ==
    IF atOrBelow(tree, s) = {} THEN <<0, FALSE>>
    ELSE IF greatest(atOrBelow(tree, s))[1] = senderID THEN <<greatest(atOrBelow(tree, s))[2], TRUE>>
    ELSE <<0, FALSE>>

Descend(c) ==
    /\ calls[c].pc = "wroteNonce"
    /\ calls' = [calls EXCEPT ![c].pc = "answered",
                              ![c].res = descendLessOrEqual(pool.all.tree, search, calls[c].arg)]
    /\ UNCHANGED <<pool, db, view, ret, steps, fails, u64in, u64out, lock, search, newPendingTxs>>

\* defer p.lock.RUnlock()
RUnlock(c) ==
    /\ calls[c].pc = "answered"
    /\ lock' = [lock EXCEPT !.r = @ \ {c}]
    /\ calls' = [calls EXCEPT ![c] = Idle]
    /\ UNCHANGED <<pool, db, view, ret, steps, fails, u64in, u64out, search, newPendingTxs>>

NextCalls ==
    \/ Receive
    \/ \E c \in Callers :
        \/ \E op \in WriteOps \cup ReadOps : \E arg \in OpArgs(op) : Call(c, op, arg)
        \/ Lock(c)
        \/ Mutate(c)
        \/ Commit(c)
        \/ Notify(c)
        \/ Unlock(c)
        \/ RLock(c)
        \/ Query(c)
        \/ WriteSender(c)
        \/ WriteNonce(c)
        \/ Descend(c)
        \/ RUnlock(c)

SpecCalls == InitCalls /\ [][NextCalls]_vars

\* the positions of a caller between taking and releasing the lock
InWrite == {"locked", "mutating", "selecting", "committed"}

InRead == {"rlocked", "wroteSender", "wroteNonce", "answered"}

\* C23: the bodies of OnNewBlock, AddLocalTxs, AddRemoteTxs, processRemoteTxs
\* and flush exclude one another and every reader: while a caller is inside
\* the body of one of them it holds the write lock, no other caller is inside
\* a body and no reader holds the read lock.
C23_WritersExclusive ==
    \A c \in Callers :
        calls[c].pc \in InWrite
            => /\ lock.w = c
               /\ lock.r = {}
               /\ \A d \in Callers \ {c} : calls[d].pc \notin InWrite \cup InRead

\* a writer is in the middle of its mutations while another call waits
C23_WriterMidBodyOtherWaits ==
    \E c \in Callers, d \in Callers :
        /\ c # d
        /\ calls[c].pc = "mutating"
        /\ calls[c].op = "OnNewBlock"
        /\ pool.lastSeenBlock = 1 /\ ~pool.started
        /\ calls[d].pc = "begin"

\* C24: the queries that run under the read lock modify no engine state: no
\* step taken while a caller holds the read lock changes the pool or the
\* search key of the nonce index.
C24_ReadersModifyNothing ==
    [][lock.r # {} => (pool' = pool /\ search' = search)]_vars

\* the pooled nonces of sender a
pooledNonces(p, a) == {k[2] : k \in {j \in DOMAIN p.all.tree : j[1] = a}}

\* the answer NonceFromAddress is to give for address a
HighestNonce(p, a) ==
    IF pooledNonces(p, a) = {} THEN <<0, FALSE>>
    ELSE <<CHOOSE n \in pooledNonces(p, a) : \A m \in pooledNonces(p, a) : m <= n, TRUE>>

\* C26: NonceFromAddress(addr) returns (n, true) with n the highest pooled
\* nonce of the sender, and (0, false) when the address is unknown or the
\* sender has no pooled transaction.
C26_HighestPooledNonce ==
    \A c \in Callers :
        (calls[c].op = "NonceFromAddress" /\ calls[c].pc = "answered")
            => calls[c].res = HighestNonce(pool, calls[c].arg)

\* C25: a pool is not started until an OnNewBlock has returned without
\* error: before that AddLocalTxs and processRemoteTxs return an error and
\* leave the pool as it is; only an OnNewBlock that returns nil starts the
\* pool, every OnNewBlock that returns nil leaves it started, and a started
\* pool stays started (a step that replaces the pool by a new one aside).
C25_StartedByFirstBlock ==
    [][/\ (~pool.started /\ steps' = steps + 1 /\ ret'.op \in {"AddLocalTxs", "processRemoteTxs"})
            => (ret'.err = "not started" /\ pool' = pool)
       /\ (~pool.started /\ pool'.started) => (ret'.op = "OnNewBlock" /\ ret'.err = "nil")
       /\ (steps' = steps + 1 /\ ret'.op = "OnNewBlock" /\ ret'.err = "nil") => pool'.started
       /\ (pool.started /\ ~(steps' = steps + 1 /\ ret'.op = "New")) => pool'.started]_vars

\* AddLocalTxs was refused on a pool that is not started, after an OnNewBlock
\* that failed
C25_RefusedBeforeStart ==
    /\ ~pool.started
    /\ ret.op = "AddLocalTxs"
    /\ ret.err = "not started"
    /\ pool.lastSeenBlock > 0

\* a caller that has reached its select goes on running
SpecCallsFair == SpecCalls /\ \A c \in Callers : WF_vars(Notify(c) \/ Unlock(c))

\* C27: AddLocalTxs, processRemoteTxs and OnNewBlock never block on
\* newPendingTxs.  A call whose select finds the channel full leaves the
\* channel as it is, sends nothing and keeps the pool changes of its body
\* (processRemoteTxs then only empties its buffer); and, whether or not
\* anybody receives, a call that has reached its select releases the write
\* lock.
C27_NeverBlocksOnChannel ==
    /\ [][\A c \in Callers :
             (/\ calls[c].pc = "selecting"
              /\ calls'[c] # calls[c]
              /\ Len(newPendingTxs) = ChanCap)
                 => /\ newPendingTxs' = newPendingTxs
                    /\ calls'[c].pc = "committed"
                    /\ ~calls'[c].res[2]
                    /\ \E ctxDone \in BOOLEAN : pool' = afterSelect(calls[c].op, pool, ctxDone)]_vars
    /\ \A c \in Callers : (calls[c].pc = "selecting") ~> (lock.w = "none")

\* AddLocalTxs offered its promoted hashes to a full channel, they were
\* dropped, and the call is about to release the lock with a2 pooled
C27_DroppedOnFullChannel ==
    \E c \in Callers :
        /\ calls[c].pc = "committed"
        /\ calls[c].op = "AddLocalTxs"
        /\ calls[c].res[1] > 0
        /\ ~calls[c].res[2]
        /\ Len(newPendingTxs) = ChanCap
        /\ "a2" \in DOMAIN pool.byHash

\* the metaTx of the pooled transaction h, its slot and its sender
PooledMt(h) == pool.mt[pool.byHash[h]]

\* every nonce from the state nonce of the sender of h up to the nonce of h
\* is pooled for that sender
NoGapBefore(h) ==
    \A n \in view[Slots[h].senderID].nonce .. Slots[h].nonce :
        <<Slots[h].senderID, n>> \in DOMAIN pool.all.tree

\* every sender was last reclassified against the state view as it is now:
\* no lookup of the view has failed and the last call returned nil
AllReclassified == fails = 0 /\ ret.err = "nil"

\* C28: after a sender is reclassified, a pooled transaction of that sender
\* has the NoNonceGaps bit iff every nonce from the state nonce of the sender
\* up to its own is pooled, and a transaction behind a gap is in Queued.
C28_NoNonceGapsIffContiguous ==
    AllReclassified
        => \A h \in DOMAIN pool.byHash :
              /\ HasBit(PooledMt(h).subPool, NoNonceGaps) <=> NoGapBefore(h)
              /\ ~NoGapBefore(h) => PooledMt(h).currentSubPool = QueuedSubPool

\* gas * feeCap + value summed over the pooled transactions of the sender of
\* h with nonce from the state nonce of the sender up to the nonce of h
RequiredBalance(h) ==
    LET RECURSIVE sumFrom(_)
        sumFrom(n) ==
            IF n > Slots[h].nonce THEN 0
            ELSE (IF <<Slots[h].senderID, n>> \in DOMAIN pool.all.tree
                  THEN Slots[pool.mt[pool.all.tree[<<Slots[h].senderID, n>>]].Tx].gas
                           * Slots[pool.mt[pool.all.tree[<<Slots[h].senderID, n>>]].Tx].feeCap
                       + Slots[pool.mt[pool.all.tree[<<Slots[h].senderID, n>>]].Tx].value
                  ELSE 0) + sumFrom(n + 1)
    IN sumFrom(view[Slots[h].senderID].nonce)

\* On the pool: a pooled transaction has the EnoughBalance bit iff the cost
\* of the pooled transactions of its sender from the state nonce up to and
\* including it is at most the state balance; a transaction without the bit
\* is in Queued; and once a transaction lacks the bit every pooled
\* transaction of the sender with a higher nonce lacks it.
PooledEnoughBalanceExact ==
    AllReclassified
        => \A h \in DOMAIN pool.byHash :
              /\ HasBit(PooledMt(h).subPool, EnoughBalance)
                     <=> RequiredBalance(h) <= view[Slots[h].senderID].balance
              /\ ~HasBit(PooledMt(h).subPool, EnoughBalance)
                     => /\ PooledMt(h).currentSubPool = QueuedSubPool
                        /\ \A g \in DOMAIN pool.byHash :
                              (Slots[g].senderID = Slots[h].senderID /\ Slots[g].nonce > Slots[h].nonce)
                                  => ~HasBit(PooledMt(g).subPool, EnoughBalance)

\* gas * feeCap + value of the input, in the integers, is at most the state
\* balance
Covered(in) ==
    ~LtLimbs(Pad(in.senderBalance, 17), AddCarry(Pad(MulFull(in.gas, ToU64(in.feeCap)), 16), in.value))

\* C29: after a sender is reclassified, a pooled transaction of that sender
\* has the EnoughBalance bit iff gas*feeCap + value summed over the pooled
\* transactions of the sender from the state nonce up to and including it is
\* at most the state balance.  Here for a sender whose only pooled
\* transaction is the one the validator has just accepted.
C29_EnoughBalanceIffCovered ==
    ret.op = "onSenderStateChange" => (ret.enoughBalance <=> Covered(u64in))

\* the pooled transactions of sender s, after the step
PooledOf(p, s) == {h \in DOMAIN p.byHash : Slots[h].senderID = s}

\* the subPool bits of the pooled transaction h of pool p that
\* onSenderStateChange derives from the state nonce and the state balance
NonceAndBalanceBits(p, h) ==
    <<HasBit(p.mt[p.byHash[h]].subPool, NoNonceGaps), HasBit(p.mt[p.byHash[h]].subPool, EnoughBalance)>>

\* sender A as the reclassifier is to leave it: no pooled transaction below
\* the state nonce, every nonceDistance = nonce - state nonce, NoNonceGaps iff
\* the nonces from the state nonce up to its own are pooled, EnoughBalance
\* iff the cost of the pooled transactions up to it is at most the balance
ReclassifiedA ==
    \A h \in PooledOf(pool, "A") :
        /\ Slots[h].nonce >= view["A"].nonce
        /\ PooledMt(h).nonceDistance = Slots[h].nonce - view["A"].nonce
        /\ NonceAndBalanceBits(pool, h) = <<NoGapBefore(h), RequiredBalance(h) <= view["A"].balance>>

\* C30: after OnNewBlock returns, for a sender whose account is in the state
\* changes of the block (here: A, its nonce or balance changed by the
\* block), no pooled transaction has a nonce below the new state nonce, and
\* every pooled transaction of the sender has nonceDistance = nonce - state
\* nonce and markers that agree with the new nonce and balance.
C30_ReclassifiedAgainstNewState ==
    [][(steps' = steps + 1 /\ ret'.op = "OnNewBlock" /\ ret'.err = "nil" /\ view'["A"] # view["A"])
           => ReclassifiedA']_vars

\* C31: after AddLocalTxs, processRemoteTxs or OnNewBlock returns, no pooled
\* transaction of a reclassified sender has a running minFeeCap below the
\* protocol base fee: the reclassifier zeroed its marker and the promoter
\* discarded it with FeeTooLow in the same call.
C31_BelowProtocolFeeEvicted ==
    (AllReclassified /\ ret.op \in {"AddLocalTxs", "processRemoteTxs", "OnNewBlock"})
        => \A h \in DOMAIN pool.byHash :
              PooledMt(h).minFeeCap >= calcProtocolBaseFee(pool.pendingBaseFee)

\* C32: a transaction that was added as local (its hash is in the is-local
\* LRU), was mined, and comes back in the unwind list of OnNewBlock is pooled
\* again with its IsLocal flag set.
C32_UnwoundLocalStaysLocal ==
    [][\A h \in IdHashes :
          (/\ ret'.op = "OnNewBlock" /\ ret'.err = "nil" /\ steps' = steps + 1
           /\ \E i \in DOMAIN ret'.txs : ret'.txs[i] = h
           /\ pool.started /\ h \in pool.isLocalLRU
           /\ h \notin DOMAIN pool.byHash
           /\ h \in DOMAIN pool'.byHash)
              => HasBit(pool'.mt[pool'.byHash[h]].subPool, IsLocal)]_vars

\* the pending base fee the comparators of the six containers use
ContainerBaseFees(p) ==
    {p.pending.best.pendingBaseFee, p.pending.worst.pendingBaseFee,
     p.baseFee.best.pendingBaseFee, p.baseFee.worst.pendingBaseFee,
     p.queued.best.pendingBaseFee, p.queued.worst.pendingBaseFee}

\* C33: at every stable point, right after restore from persistence included,
\* the pending base fee used by the comparators of all six sub-pool containers
\* equals the pool's pendingBaseFee.
C33_ContainersFollowBaseFee ==
    (fails = 0 /\ ret.err = "nil") => ContainerBaseFees(pool) = {pool.pendingBaseFee}

\* the pooled transaction of p holding the (sender, nonce) of hash h in the
\* nonce index
IndexedAt(p, h) == get(p, Slots[h].senderID, Slots[h].nonce)

\* C34: when an unwound transaction reinjected by OnNewBlock is rejected with
\* NotReplaced, the pooled transaction with that (sender, nonce) stays in the
\* nonce index, in byHash and in its sub-pool, and the per-sender count is
\* unchanged, as for a fresh submission rejected with NotReplaced.
C34_RejectedUnwindKeepsExisting ==
    [][\A h \in IdHashes, e \in DOMAIN pool'.byHash :
          (/\ ret'.op = "OnNewBlock" /\ ret'.err = "nil" /\ steps' = steps + 1
           /\ ret'.txs = <<h>> /\ ret'.mined = <<>>
           /\ h \notin DOMAIN pool.byHash
           /\ h \notin DOMAIN pool.discardReasonsLRU
           /\ h \in DOMAIN pool'.discardReasonsLRU
           /\ pool'.discardReasonsLRU[h] = "NotReplaced"
           /\ Slots[e].senderID = Slots[h].senderID /\ Slots[e].nonce = Slots[h].nonce)
              => /\ IndexedAt(pool', h) = pool'.byHash[e]
                 /\ count(pool', Slots[h].senderID) >= 1]_vars

\* the floor(c / 2) highest-nonce transactions among the c pooled
\* transactions of sender s
UpperHalf(p, s) ==
    {h \in PooledOf(p, s) :
        Cardinality({g \in PooledOf(p, s) : Slots[g].nonce > Slots[h].nonce})
            < Cardinality(PooledOf(p, s)) \div 2}

\* what punishing sender s leaves of pool p in q: the upper half of s is
\* discarded with reason Spammer, every other pooled transaction, index
\* entry and metaTx is kept
PunishedExactly(p, q, s) ==
    /\ DOMAIN q.byHash = DOMAIN p.byHash \ UpperHalf(p, s)
    /\ Cardinality(UpperHalf(p, s)) = Cardinality(PooledOf(p, s)) \div 2
    /\ \A h \in UpperHalf(p, s) :
          /\ h \in DOMAIN q.discardReasonsLRU
          /\ q.discardReasonsLRU[h] = "Spammer"
          /\ IndexedAt(q, h) = 0
    /\ \A h \in DOMAIN q.byHash :
          /\ q.byHash[h] = p.byHash[h]
          /\ q.mt[q.byHash[h]] = p.mt[p.byHash[h]]
          /\ IndexedAt(q, h) = IndexedAt(p, h)
    /\ \A t \in Senders \ {s} : count(q, t) = count(p, t)

\* C35: when validation of a transaction returns Spammer for sender S with c
\* pooled transactions, punishSpammer discards exactly the floor(c/2)
\* highest-nonce transactions of S, each with reason Spammer, and leaves the
\* lower-nonce transactions of S and the transactions of other senders
\* untouched.
C35_SpammerLosesUpperHalf ==
    \A s \in Senders :
        count(pool, s) > AccountSlots => PunishedExactly(pool, punishSpammer(pool, s), s)

\* the metaTx held by the sub-pool stored in field sp of pool p
HeldBy(p, sp) == SeqToSet(p[sp].best.ms) \cup SeqToSet(p[sp].worst.ms)

\* for every metaTx held by a sub-pool of p, best.ms[bestIndex] and
\* worst.ms[worstIndex] are that metaTx, best and worst hold the same metaTx
\* and currentSubPool names the pool; a metaTx held by none has both
\* indexes at -1
IndexesAgree(p) ==
    /\ \A sp \in SubPoolNames :
          /\ SeqToSet(p[sp].best.ms) = SeqToSet(p[sp].worst.ms)
          /\ Len(p[sp].best.ms) = Len(p[sp].worst.ms)
          /\ \A id \in HeldBy(p, sp) :
                /\ p.mt[id].bestIndex \in 0..(Len(p[sp].best.ms) - 1)
                /\ p[sp].best.ms[p.mt[id].bestIndex + 1] = id
                /\ p.mt[id].worstIndex \in 0..(Len(p[sp].worst.ms) - 1)
                /\ p[sp].worst.ms[p.mt[id].worstIndex + 1] = id
                /\ p.mt[id].currentSubPool = TypeOf(sp)
    /\ \A id \in DOMAIN p.mt \ UNION {HeldBy(p, sp) : sp \in SubPoolNames} :
          p.mt[id].bestIndex = -1 /\ p.mt[id].worstIndex = -1

\* C36: after every sub-pool operation (Add, Remove, PopBest, PopWorst,
\* Updated, EnforceInvariants, sort), for every metaTx held by a sub-pool,
\* best.ms[bestIndex] and worst.ms[worstIndex] are that metaTx, the best and
\* worst containers of the pool hold the same metaTx, and currentSubPool names
\* that pool; a metaTx held by no sub-pool has bestIndex = worstIndex = -1.
C36_IndexesAgreeWithContainers ==
    /\ IndexesAgree(pool)
    /\ IndexesAgree(EnforceBestInvariants(EnforceWorstInvariants(pool)))
    /\ \A sp \in SubPoolNames :
          /\ PoolLen(pool, sp) > 0 => IndexesAgree(PopWorst(pool, sp).p)
          /\ (sp # "pending" /\ PoolLen(pool, sp) > 0) => IndexesAgree(SubPool_PopBest(pool, sp).p)
          /\ sp # "pending" => IndexesAgree(EnforceInvariants(pool, sp))
          /\ \A id \in HeldBy(pool, sp) :
                /\ IndexesAgree(removeFromSubPool(pool, id))
                /\ IndexesAgree(updatedInSubPool(pool, id))

\* a sub-pool holds two metaTx after an operation that moved or removed one
C36_SubPoolReordered ==
    /\ ret.op \in {"AddLocalTxs", "OnNewBlock", "processRemoteTxs"} /\ ret.err = "nil"
    /\ DOMAIN pool.discardReasonsLRU # {}
    /\ \E sp \in SubPoolNames :
          /\ Len(pool[sp].best.ms) = 2
          /\ pool[sp].best.ms # pool[sp].worst.ms

\* C37: the IsLocal bit of a pooled transaction's marker never changes after
\* insertion: a transaction that stays pooled through a call keeps the bit,
\* reclassification with a minFeeCap below the protocol base fee included.
C37_IsLocalKept ==
    [][\A h \in DOMAIN pool.byHash \cap DOMAIN pool'.byHash :
          (pool.started /\ pool'.byHash[h] = pool.byHash[h])
              => (HasBit(pool'.mt[pool'.byHash[h]].subPool, IsLocal)
                     <=> HasBit(pool.mt[pool.byHash[h]].subPool, IsLocal))]_vars

(***************************************************************************)
(* MainLoop, case h := <-newTxs: the promoted hashes of one batch are      *)
(* split into local and remote announcements.  A Hashes value is a slice:   *)
(* arr is its backing array in 32-byte entries ("" for an entry never       *)
(* written), len its length; append writes in place while the capacity      *)
(* allows and allocates otherwise.  The capacity append allocates is left   *)
(* to the runtime: grow = "exact" allocates what is needed, "double" twice  *)
(* the old capacity.                                                        *)
(***************************************************************************)
MaxBatch == 3

AnnounceHashes == {"a0", "a1", "b0", "t5"}

\* the batches of distinct hashes the channel can deliver
AnnounceBatches ==
    UNION {{q \in [1..n -> AnnounceHashes] : \A i, j \in 1..n : i # j => q[i] # q[j]} : n \in 1..MaxBatch}

\* IsLocal(idHash)
TxPool_IsLocal(p, hash) == hash \in p.isLocalLRU

NilSlice == [arr |-> <<>>, len |-> 0]

sliceValue(s) == SubSeq(s.arr, 1, s.len)

\* the array append allocates for a slice s that is full
grown(s, hash, grow) ==
    sliceValue(s) \o <<hash>>
        \o [k \in 1..(IF grow = "exact" \/ Len(s.arr) = 0 THEN 0 ELSE Len(s.arr) - 1) |-> ""]

\* append(s, hash...): the slice it returns, the array of s afterwards, and
\* whether the two share that array
append(s, hash, grow) ==
    IF s.len < Len(s.arr)
    THEN [res |-> [arr |-> [s.arr EXCEPT ![s.len + 1] = hash], len |-> s.len + 1],
          arr |-> [s.arr EXCEPT ![s.len + 1] = hash], shared |-> TRUE]
    ELSE [res |-> [arr |-> grown(s, hash, grow), len |-> s.len + 1], arr |-> s.arr, shared |-> FALSE]

\* localTxHashes = append(localTxHashes, hash...); remoteTxHashes sees the
\* write when it shares the array and the append was in place
appendLocal(st, hash, grow) ==
    [st EXCEPT !.localTxHashes = append(st.localTxHashes, hash, grow).res,
               !.localTxRlps = Append(@, hash),
               !.remoteTxHashes =
                   IF st.remoteShares /\ append(st.localTxHashes, hash, grow).shared
                   THEN [@ EXCEPT !.arr = append(st.localTxHashes, hash, grow).arr]
                   ELSE @,
               !.remoteShares = st.remoteShares /\ append(st.localTxHashes, hash, grow).shared]

\* remoteTxHashes = append(localTxHashes, hash...)
appendRemote(st, hash, grow) ==
    [st EXCEPT !.remoteTxHashes = append(st.localTxHashes, hash, grow).res,
               !.localTxHashes = [@ EXCEPT !.arr = append(st.localTxHashes, hash, grow).arr],
               !.remoteTxRlps = Append(@, hash),
               !.remoteShares = append(st.localTxHashes, hash, grow).shared]

\* one iteration of the loop over h
announceStep(p, d, st, hash, grow) ==
    IF getRlpLocked(p, d, hash) = "" THEN st
    ELSE IF TxPool_IsLocal(p, hash)
         THEN appendLocal([st EXCEPT !.slotsRlp = Append(@, hash)], hash, grow)
         ELSE appendRemote([st EXCEPT !.slotsRlp = Append(@, hash)], hash, grow)

RECURSIVE announceLoop(_, _, _, _, _, _)
announceLoop(p, d, h, i, st, grow) ==
    IF i > Len(h) THEN st
    ELSE announceLoop(p, d, h, i + 1, announceStep(p, d, st, h[i], grow), grow)

\* the lists handed to BroadcastPooledTxs and AnnouncePooledTxs
announce(p, d, h, grow) ==
    announceLoop(p, d, h, 1,
                 [slotsRlp |-> <<>>, localTxHashes |-> NilSlice, localTxRlps |-> <<>>,
                  remoteTxHashes |-> NilSlice, remoteTxRlps |-> <<>>, remoteShares |-> FALSE],
                 grow)

\* the database a0, a1 and b0 were flushed to, locals being the local ones
AnnounceDB(locals) == [txs |-> {"a0", "a1", "b0"}, locals |-> locals, baseFee |-> 0, lastSeen |-> 0]

\* the pool after the restoring OnNewBlock, and one batch waiting in the
\* channel
InitAnnounce ==
    /\ \E locals \in SUBSET {"a0", "b0"} :
          /\ db = AnnounceDB(locals)
          /\ pool = collect(onNewBlock(New, AnnounceDB(locals), FreshView, 0,
                                       BlockEvent(-1, -1, -1, <<>>, <<>>), FALSE, <<"A", "B">>).p)
    /\ view = FreshView
    /\ ret = Ret("New", <<>>, <<>>, <<>>, "nil")
    /\ steps = 0
    /\ fails = 0
    /\ u64in = <<>>
    /\ u64out = "none"
    /\ lock = Unlocked
    /\ search = NoSearch
    /\ calls = NoCalls
    /\ \E h \in AnnounceBatches : newPendingTxs = <<h>>

\* case h := <-newTxs and the goroutine it starts, up to the four lists
Announce(grow) ==
    /\ newPendingTxs # <<>>
    /\ \E r \in {announce(pool, db, Head(newPendingTxs), grow)} :
          ret' = [op |-> "MainLoop", err |-> "nil", h |-> Head(newPendingTxs),
                  slotsRlp |-> r.slotsRlp,
                  localTxHashes |-> sliceValue(r.localTxHashes), localTxRlps |-> r.localTxRlps,
                  remoteTxHashes |-> sliceValue(r.remoteTxHashes), remoteTxRlps |-> r.remoteTxRlps]
    /\ newPendingTxs' = Tail(newPendingTxs)
    /\ UNCHANGED <<pool, db, view, steps, fails, u64in, u64out, lock, search, calls>>

NextAnnounce == \E grow \in {"exact", "double"} : Announce(grow)

SpecAnnounce == InitAnnounce /\ [][NextAnnounce]_vars

\* the hashes of batch h with a retrievable encoding, in order
Retrievable(h) == selectSeq(h, {x \in AnnounceHashes : getRlpLocked(pool, db, x) # ""})

\* C39: for each batch of promoted hashes handled by MainLoop, the hashes with
\* a retrievable encoding are partitioned into local and remote: the local
\* list holds exactly the local ones, the remote list exactly the others, in
\* batch order, and the remote hash list has the length and order of the
\* remote encodings list.
C39_AnnouncementsPartitioned ==
    ret.op = "MainLoop" =>
        /\ ret.localTxHashes = selectSeq(Retrievable(ret.h), pool.isLocalLRU)
        /\ ret.remoteTxHashes = selectSeq(Retrievable(ret.h), AnnounceHashes \ pool.isLocalLRU)
        /\ ret.remoteTxHashes = ret.remoteTxRlps

(***************************************************************************)
(* The state view of the writers.  AddLocalTxs and processRemoteTxs begin  *)
(* the read transaction coreTx and take cache.View(ctx, coreTx) ahead of    *)
(* p.lock.Lock(); OnNewBlock applies the batch to the cache, then takes the *)
(* lock, and takes its view under the lock.  The view of a caller is the    *)
(* account state of its read transaction: the state at the time the         *)
(* transaction began.  fetch.go delivers the batches one after the other,   *)
(* so one OnNewBlock runs at a time.                                        *)
(***************************************************************************)
ViewEvents ==
    {BlockEvent(-1, -1, -1, <<>>, <<>>),
     BlockEvent(0, 1, -1, <<"a0">>, <<>>),
     BlockEvent(-1, -1, LowBalance, <<>>, <<>>)}

ViewLocalTxs == <<"a1">>

ViewRemoteTxs == <<"a1">>

\* the pool restored from a database holding a0, with ViewRemoteTxs waiting
\* in the buffer of remote transactions
InitView ==
    /\ db = [txs |-> {"a0"}, locals |-> {}, baseFee |-> 0, lastSeen |-> 0]
    /\ view = FreshView
    /\ \E r \in {onNewBlock(New, db, FreshView, 0, BlockEvent(-1, -1, -1, <<>>, <<>>), FALSE, CallOrder)} :
          pool = [collect(r.p) EXCEPT !.unprocessedRemoteTxs =
                     @ \o selectSeq(ViewRemoteTxs, IdHashes \ r.p.unprocessedRemoteByHash)]
    /\ ret = Ret("New", <<>>, <<>>, <<>>, "nil")
    /\ steps = 0
    /\ fails = 0
    /\ u64in = <<>>
    /\ u64out = "none"
    /\ lock = Unlocked
    /\ search = NoSearch
    /\ calls = NoCalls
    /\ newPendingTxs = <<>>

\* AddLocalTxs and processRemoteTxs up to p.lock.Lock(): BeginRo, cache.View
\* and the Started check
TakeView(c, op) ==
    /\ steps < MaxOps
    /\ calls[c].pc = "idle"
    /\ pool.started
    /\ calls' = [calls EXCEPT ![c] = [op |-> op, pc |-> "begin", arg |-> "", res |-> <<0, FALSE>>,
                                      cacheView |-> view]]
    /\ steps' = steps + 1
    /\ UNCHANGED <<pool, db, view, ret, fails, u64in, u64out, lock, search, newPendingTxs>>

\* OnNewBlock up to p.lock.Lock(): cache.OnNewBlock(stateChanges)
ApplyBatch(c, ev) ==
    /\ steps < MaxOps
    /\ calls[c].pc = "idle"
    /\ \A o \in Callers : calls[o].op # "OnNewBlock"
    /\ ev.pre \in {-1, view["A"].nonce}
    /\ view' = ApplyEvent(view, ev)
    /\ calls' = [calls EXCEPT ![c] = [op |-> "OnNewBlock", pc |-> "begin", arg |-> "",
                                      res |-> <<0, FALSE>>, ev |-> ev]]
    /\ steps' = steps + 1
    /\ UNCHANGED <<pool, db, ret, fails, u64in, u64out, lock, search, newPendingTxs>>

\* the non-blocking send of p.promoted that ends a writer
sendPromoted(ch, p) == IF Len(p.promoted) > 0 THEN select(ch, p.promoted, FALSE).ch ELSE ch

\* OnNewBlock under the lock; its view is taken here
OnNewBlockLocked(c) ==
    /\ calls[c].pc = "locked"
    /\ calls[c].op = "OnNewBlock"
    /\ \E r \in {onNewBlock(pool, db, view, 0, calls[c].ev, FALSE, CallOrder)} :
          /\ pool' = collect(r.p)
          /\ ret' = Ret("OnNewBlock", calls[c].ev.unwind, calls[c].ev.mined, <<>>, r.err)
          /\ newPendingTxs' = sendPromoted(newPendingTxs, r.p)
    /\ calls' = [calls EXCEPT ![c].pc = "committed"]
    /\ UNCHANGED <<db, view, steps, fails, u64in, u64out, lock, search>>

\* AddLocalTxs under the lock, with the view taken ahead of it
AddLocalTxsLocked(c) ==
    /\ calls[c].pc = "locked"
    /\ calls[c].op = "AddLocalTxs"
    /\ \E r \in {addLocalTxs(pool, calls[c].cacheView, ViewLocalTxs, FALSE, CallOrder)} :
          /\ pool' = collect(r.p)
          /\ ret' = Ret("AddLocalTxs", ViewLocalTxs, <<>>, r.reasons, r.err)
          /\ newPendingTxs' = sendPromoted(newPendingTxs, r.p)
    /\ calls' = [calls EXCEPT ![c].pc = "committed"]
    /\ UNCHANGED <<db, view, steps, fails, u64in, u64out, lock, search>>

\* processRemoteTxs under the lock, with the view taken ahead of it
processRemoteTxsLocked(c) ==
    /\ calls[c].pc = "locked"
    /\ calls[c].op = "processRemoteTxs"
    /\ \E r \in {processRemoteTxs(pool, calls[c].cacheView, FALSE, FALSE, CallOrder)} :
          /\ pool' = collect(r.p)
          /\ ret' = Ret("processRemoteTxs", pool.unprocessedRemoteTxs, <<>>, <<>>, r.err)
          /\ newPendingTxs' = sendPromoted(newPendingTxs, r.p)
    /\ calls' = [calls EXCEPT ![c].pc = "committed"]
    /\ UNCHANGED <<db, view, steps, fails, u64in, u64out, lock, search>>

NextView ==
    \/ \E c \in Callers, op \in StartedOps : TakeView(c, op)
    \/ \E c \in Callers, ev \in ViewEvents : ApplyBatch(c, ev)
    \/ \E c \in Callers : Lock(c)
    \/ \E c \in Callers : OnNewBlockLocked(c)
    \/ \E c \in Callers : AddLocalTxsLocked(c)
    \/ \E c \in Callers : processRemoteTxsLocked(c)
    \/ \E c \in Callers : Unlock(c)
    \/ Receive

SpecView == InitView /\ [][NextView]_vars

\* caller c has run AddLocalTxs or processRemoteTxs to its end and no
\* OnNewBlock is under way: view is the state the last completed OnNewBlock
\* applied
ReturnsAfterBlock(c) ==
    /\ calls[c].pc = "committed"
    /\ calls[c].op \in StartedOps
    /\ ret.err = "nil"
    /\ \A o \in Callers : calls[o].op # "OnNewBlock"

\* C38: under any interleaving of AddLocalTxs or processRemoteTxs with
\* OnNewBlock, the account state they validate and reclassify with is not
\* older than the state applied by the last OnNewBlock that completed before
\* they took the write lock, and when they return the markers and the
\* nonceDistance of the sender's pooled transactions agree with that state.
C38_ViewNotOlderThanLastBlock ==
    \A c \in Callers :
        ReturnsAfterBlock(c) => calls[c].cacheView = view /\ ReclassifiedA

\* the metaTx of h is not stored in the nonce index of p
NotIndexed(p, h) == IndexedAt(p, h) = 0 \/ p.mt[IndexedAt(p, h)].Tx # h

\* C40: after any sequence of replaceOrInsert and delete on the nonce index,
\* count(senderID) is the number of tree entries of that sender for every
\* sender, the side map has no entry for a sender without entries, and
\* deleting a metaTx that is not in the index changes nothing.
C40_CountsAndDeleteOfAbsent ==
    /\ \A s \in Senders : count(pool, s) = Cardinality({k \in DOMAIN pool.all.tree : k[1] = s})
    /\ \A s \in DOMAIN pool.all.senderIDTxnCount : pool.all.senderIDTxnCount[s] > 0
    /\ \A h \in IdHashes : NotIndexed(pool, h) => delete(pool, h).all = pool.all

====
